---------------------------- MODULE Spec2Model ----------------------------
(***************************************************************************)
(* A model of mtuq's waveform misfit function:                             *)
(*   - the facade WaveformMisfit (src/mtuq/misfit/waveform/__init__.py):   *)
(*     its constructor, __call__, collect_attributes, collect_synthetics;  *)
(*   - the level-2 numba kernel (src/mtuq/misfit/waveform/numba_L2.py).    *)
(* The modules the facade imports but whose code lies outside these two    *)
(* files (level0, level1, the level2 wrapper, check_padding, isempty,      *)
(* iterable, get_synthetics) are modelled from the specification text and  *)
(* marked as such where they are defined.  The module also models the      *)
(* Green's tensor client (src/mtuq/io/greens_tensor/base.py) and the       *)
(* gather of the distributed grid search of the example script             *)
(* (src/examples/GridSearch.FullMomentTensor.py).                          *)
(*                                                                         *)
(* Specifications: SpecInit (the constructor), Spec (construction and the  *)
(* evaluations), SpecKernel (the numba kernel step by step), SpecClient    *)
(* (the client), SpecGrid (the distributed grid search).                   *)
(*                                                                         *)
(* Conventions.  Python lists are sequences (1-based); numpy arrays are    *)
(* functions over 0..N-1, so that the kernel keeps the indices of the      *)
(* source.  Python strings that the code inspects character by character   *)
(* (the norm name, a time-shift group) are sequences of one-character      *)
(* strings.  Times are integers (seconds); sample values are integers.     *)
(* Assertions are modelled as enabled (the interpreter's default).         *)
(***************************************************************************)
EXTENDS Integers, Sequences, FiniteSets, TLC

\* obj: the misfit function object, once constructed
\* callerData, callerGreens, callerSources: what the caller passes to the evaluations
\* last: the latest call made, with its arguments and outcome
VARIABLES obj, callerData, callerGreens, callerSources, last, beyond, world, kernel

vars == <<obj, callerData, callerGreens, callerSources, last, beyond, world, kernel>>

(***************************************************************************)
(* Python strings                                                          *)
(***************************************************************************)
L1 == <<"L", "1">>
L2 == <<"L", "2">>
hybrid == <<"h", "y", "b", "r", "i", "d">>

\* str.lower() on one character, for the letters the model's names use
LowerChar(c) ==
    CASE c = "H" -> "h"
      [] c = "Y" -> "y"
      [] c = "B" -> "b"
      [] c = "R" -> "r"
      [] c = "I" -> "i"
      [] c = "D" -> "d"
      [] c = "L" -> "l"
      [] c = "Z" -> "z"
      [] c = "T" -> "t"
      [] OTHER -> c

\* str.lower()
Lower(s) == [i \in DOMAIN s |-> LowerChar(s[i])]

\* the component alphabet of the constructor's check
Components == <<"Z", "R", "T">>

SeqToSet(s) == {s[i] : i \in DOMAIN s}

(***************************************************************************)
(* Outcomes of a Python call: a returned value or a raised exception.      *)
(* events is the trace of the side effects the call made, in order.        *)
(***************************************************************************)
Return(value, events) ==
    [status |-> "return", exc |-> "", msg |-> <<>>, value |-> value, events |-> events]

Raise(exc, msg, events) ==
    [status |-> "raise", exc |-> exc, msg |-> msg, value |-> <<>>, events |-> events]

NoObject == [constructed |-> FALSE]

(***************************************************************************)
(* WaveformMisfit.__init__                                                 *)
(* time_shift_groups is [type, items]: type is the Python type of the      *)
(* argument ("list", "tuple", "str"), items what iterating it yields.      *)
(***************************************************************************)
\* line 138-139: a case-insensitive spelling of 'hybrid' becomes 'hybrid'
NormalizeNormName(norm) == IF Lower(norm) = hybrid THEN hybrid ELSE norm

\* line 159-162: every character of every group is one of Z, R, T
GroupsInAlphabet(time_shift_groups) ==
    \A g \in DOMAIN time_shift_groups.items :
        \A k \in DOMAIN time_shift_groups.items[g] :
            time_shift_groups.items[g][k] \in {"Z", "R", "T"}

\* line 164 (mutant: the levels __call__ admits)
InitLevelsWithThree == {0, 1, 2, 3}

\* line 164
InitLevels == {0, 1, 2}

\* line 141 (mutant: the check compares the lower-cased name, admitting 'l1', 'l2')
NormAcceptedLower(norm) == Lower(norm) \in {Lower(L1), Lower(L2), hybrid}

\* line 141
NormAccepted(norm) == norm \in {L1, L2, hybrid}

\* line 144 (mutant: the bound is not checked)
TimeShiftMinUnchecked(time_shift_min) == TRUE

\* line 144
TimeShiftMinAccepted(time_shift_min) == time_shift_min <= 0

\* line 147 (mutant: strict)
TimeShiftMaxStrict(time_shift_max) == time_shift_max > 0

\* line 147
TimeShiftMaxAccepted(time_shift_max) == time_shift_max >= 0

\* line 156 (mutant: any iterable passes, a str included)
GroupsTypeAny(time_shift_groups) == TRUE

\* line 156
GroupsTypeAccepted(time_shift_groups) == time_shift_groups.type \in {"list", "tuple"}

WaveformMisfit_init(norm, time_shift_groups, time_shift_min, time_shift_max, level, normalize) ==
    LET norm1 == NormalizeNormName(norm)
        warned == IF norm1 = L1 THEN <<[ev |-> "warn", what |-> "consider hybrid"]>>
                  ELSE <<>>
    IN  IF ~NormAccepted(norm1)
          THEN Raise("AssertionError", <<"Bad input argument: norm">>, <<>>)
        ELSE IF ~TimeShiftMinAccepted(time_shift_min)
          THEN Raise("AssertionError", <<"Bad input argument: time_shift_min">>, <<>>)
        ELSE IF ~TimeShiftMaxAccepted(time_shift_max)
          THEN Raise("AssertionError", <<"Bad input argument: time_shift_max">>, <<>>)
        ELSE IF ~GroupsTypeAccepted(time_shift_groups)
          THEN Raise("TypeError", <<>>, warned)
        ELSE IF ~GroupsInAlphabet(time_shift_groups)
          THEN Raise("AssertionError", <<"Bad input argument">>, warned)
        ELSE IF level \notin InitLevels
          THEN Raise("AssertionError", <<>>, warned)
        ELSE Return([constructed |-> TRUE,
                     level |-> level,
                     norm |-> norm1,
                     time_shift_min |-> time_shift_min,
                     time_shift_max |-> time_shift_max,
                     time_shift_groups |-> time_shift_groups.items,
                     normalize |-> normalize],
                    warned)

(***************************************************************************)
(* Floating point values.  A value is a number or NaN; NaN is absorbing.   *)
(* Numbers are integers: sample values, weights and dt are drawn from      *)
(* integers, and the square root is the integer part of the real root.     *)
(* shape is a Python tuple kept as a 1-based tuple: shape[1] is the        *)
(* source's shape[0].                                                      *)
(***************************************************************************)
\* the number v / d (d = 1 until a result is normalized)
FNum(v) == [nan |-> FALSE, v |-> v, d |-> 1]

FNaN == [nan |-> TRUE, v |-> 0, d |-> 1]

\* a + b, for two numbers that were not divided
FAdd(a, b) == IF a.nan \/ b.nan THEN FNaN ELSE FNum(a.v + b.v)

\* c * a, for a plain number c
FScale(c, a) == IF a.nan THEN FNaN ELSE FNum(c * a.v)

\* a / n as numpy divides: not a finite number when n is 0
FDiv(a, n) == IF a.nan \/ n = 0 THEN FNaN ELSE [nan |-> FALSE, v |-> a.v, d |-> a.d * n]

Abs(x) == IF x < 0 THEN -x ELSE x

ISqrt(x) == CHOOSE r \in 0..x : r * r <= x /\ x < (r + 1) * (r + 1)

\* math.pow(x, 0.5) as numba compiles it: NaN for a negative argument
Pow05(x) == IF x < 0 THEN FNaN ELSE FNum(ISqrt(x))

\* sum of f[i] for i in 0..n-1
RECURSIVE SumTo(_, _)
SumTo(f, n) == IF n = 0 THEN 0 ELSE SumTo(f, n - 1) + f[n - 1]

(***************************************************************************)
(* numpy arrays: [shape, at], at a (nested) function over 0..N-1           *)
(***************************************************************************)
\* np.zeros((n, 1))
Zeros(n) == [shape |-> <<n, 1>>, at |-> [i \in 0..(n - 1) |-> [j \in {0} |-> FNum(0)]]]

(***************************************************************************)
(* The numba kernel, numba_L2.misfit.  Weights are in units of 5e-7, so    *)
(* that the kernel's threshold 1e-6 is WeightEps = 2 and a weight of 1 is  *)
(* a nonzero weight below the threshold.                                   *)
(***************************************************************************)
WeightEps == 2

\* lines 38 and 67, greens_data[ista, ic, ig, it]: the compiled kernel indexes
\* without a bounds check, and an index past the basis dimension reads whatever
\* lies there
GreensDataAt(greens_data, ista, ic, ig, it) ==
    IF ig < greens_data.shape[3] THEN greens_data.at[ista][ic][ig][it]
    ELSE beyond.value

\* lines 59-60, greens_greens[ista, ic, itpad, j1, j2], likewise
GreensGreensAt(greens_greens, ista, ic, itpad, j1, j2) ==
    IF j1 < greens_greens.shape[4] /\ j2 < greens_greens.shape[5]
    THEN greens_greens.at[ista][ic][itpad][j1][j2]
    ELSE beyond.value

\* lines 30-33 and 49-52 (mutant: the weight threshold is not applied)
KernelActiveNoThreshold(groups, weights, igrp, ista, ic) ==
    groups.at[igrp][ic] # 0

\* (mutant: a component counts only in the first group that holds it)
KernelActiveOnce(groups, weights, igrp, ista, ic) ==
    /\ groups.at[igrp][ic] # 0
    /\ ~(Abs(weights.at[ista][ic]) < WeightEps)
    /\ \A g \in 0..(igrp - 1) : groups.at[g][ic] = 0

\* lines 30-33 and 49-52: the component is neither skipped by the group mask nor
\* by the weight threshold
KernelActive(groups, weights, igrp, ista, ic) ==
    /\ groups.at[igrp][ic] # 0
    /\ ~(Abs(weights.at[ista][ic]) < WeightEps)

\* line 27 (mutant: the buffer is not reset)
CcKept(cc) == cc

\* line 27: cc[:] = 0.0
CcReset(cc) == [it \in DOMAIN cc |-> 0]

\* lines 29-38: the correlation curve of one (source, station, group), added to cc
CcAccumulate(cc, greens_data, sources, groups, weights, isrc, ista, igrp) ==
    LET NC == weights.shape[2]
        NG == sources.shape[2]
        term(it) ==
            [ic \in 0..(NC - 1) |->
                IF KernelActive(groups, weights, igrp, ista, ic)
                THEN SumTo([ig \in 0..(NG - 1) |->
                              GreensDataAt(greens_data, ista, ic, ig, it)
                                  * sources.at[isrc][ig]], NG)
                ELSE 0]
    IN  [it \in DOMAIN cc |-> cc[it] + SumTo(term(it), NC)]

\* lines 40-46: the scan for the maximum; st is [cc_max, cc_argmax], cc_max a
\* number or -inf
RECURSIVE ArgmaxScan(_, _)
ArgmaxScan(cc, n) ==
    IF n = 0 THEN [inf |-> TRUE, cc_max |-> 0, cc_argmax |-> 0]
    ELSE LET st == ArgmaxScan(cc, n - 1)
             it == n - 1
         IN  IF st.inf \/ cc[it] > st.cc_max
             THEN [inf |-> FALSE, cc_max |-> cc[it], cc_argmax |-> it]
             ELSE st

\* lines 40-46 (mutant: >= keeps the last maximum)
RECURSIVE ArgmaxScanLast(_, _)
ArgmaxScanLast(cc, n) ==
    IF n = 0 THEN [inf |-> TRUE, cc_max |-> 0, cc_argmax |-> 0]
    ELSE LET st == ArgmaxScanLast(cc, n - 1)
             it == n - 1
         IN  IF st.inf \/ cc[it] >= st.cc_max
             THEN [inf |-> FALSE, cc_max |-> cc[it], cc_argmax |-> it]
             ELSE st

CcArgmaxLast(cc, NPAD) == ArgmaxScanLast(cc, NPAD).cc_argmax

\* lines 40-46 (mutant: a new maximum must exceed the old one by more than 1)
RECURSIVE ArgmaxScanTolerant(_, _)
ArgmaxScanTolerant(cc, n) ==
    IF n = 0 THEN [inf |-> TRUE, cc_max |-> 0, cc_argmax |-> 0]
    ELSE LET st == ArgmaxScanTolerant(cc, n - 1)
             it == n - 1
         IN  IF st.inf \/ cc[it] > st.cc_max + 1
             THEN [inf |-> FALSE, cc_max |-> cc[it], cc_argmax |-> it]
             ELSE st

CcArgmaxTolerant(cc, NPAD) == ArgmaxScanTolerant(cc, NPAD).cc_argmax

\* lines 40-46
CcArgmax(cc, NPAD) == ArgmaxScan(cc, NPAD).cc_argmax

\* lines 54-67 (mutant: the cross term is not doubled)
ResidualSingleCross(data_data, greens_data, greens_greens, sources, isrc, ista, ic, itpad) ==
    LET NG == sources.shape[2]
        s2 == SumTo([j1 \in 0..(NG - 1) |->
                  SumTo([j2 \in 0..(NG - 1) |->
                      sources.at[isrc][j1] * sources.at[isrc][j2]
                          * GreensGreensAt(greens_greens, ista, ic, itpad, j1, j2)],
                        NG)], NG)
        d2 == data_data.at[ista][ic]
        sd == SumTo([ig \in 0..(NG - 1) |->
                  GreensDataAt(greens_data, ista, ic, ig, itpad)
                    * sources.at[isrc][ig]], NG)
    IN  s2 + d2 - sd

\* lines 54-67: L2_tmp of one component at the lag itpad
Residual(data_data, greens_data, greens_greens, sources, isrc, ista, ic, itpad) ==
    LET NG == sources.shape[2]
        s2 == SumTo([j1 \in 0..(NG - 1) |->
                  SumTo([j2 \in 0..(NG - 1) |->
                      sources.at[isrc][j1] * sources.at[isrc][j2]
                          * GreensGreensAt(greens_greens, ista, ic, itpad, j1, j2)],
                        NG)], NG)
        d2 == data_data.at[ista][ic]
        sd == SumTo([ig \in 0..(NG - 1) |->
                  2 * GreensDataAt(greens_data, ista, ic, ig, itpad)
                    * sources.at[isrc][ig]], NG)
    IN  s2 + d2 - sd

\* lines 69-72: what one component adds to L2_sum
NormTerm(hybrid_norm, dt, weight, L2_tmp) ==
    IF hybrid_norm = 0
    THEN FNum(dt * weight * L2_tmp)
    ELSE FScale(dt * weight, Pow05(L2_tmp))

\* lines 48-72: L2_sum after the component loop of one (source, station, group)
RECURSIVE ResidualLoop(_, _, _, _, _, _, _, _, _, _, _, _, _)
ResidualLoop(L2_sum, n, data_data, greens_data, greens_greens, sources, groups, weights, hybrid_norm, dt, isrc, sg, itpad) ==
    IF n = 0 THEN L2_sum
    ELSE LET before == ResidualLoop(L2_sum, n - 1, data_data, greens_data,
                           greens_greens, sources, groups, weights, hybrid_norm,
                           dt, isrc, sg, itpad)
             ic == n - 1
         IN  IF KernelActive(groups, weights, sg.igrp, sg.ista, ic)
             THEN FAdd(before,
                       NormTerm(hybrid_norm, dt, weights.at[sg.ista][ic],
                                Residual(data_data, greens_data, greens_greens,
                                         sources, isrc, sg.ista, ic, itpad)))
             ELSE before

\* lines 25-72: the state [cc, L2_sum] after the first n (station, group) pairs of
\* source isrc, in the order of the two loops
RECURSIVE StationGroupLoop(_, _, _, _, _, _, _, _, _, _, _, _)
StationGroupLoop(st, n, data_data, greens_data, greens_greens, sources, groups, weights, hybrid_norm, dt, NPAD, isrc) ==
    IF n = 0 THEN st
    ELSE LET NGRP == groups.shape[1]
             NC == weights.shape[2]
             before == StationGroupLoop(st, n - 1, data_data, greens_data,
                           greens_greens, sources, groups, weights, hybrid_norm,
                           dt, NPAD, isrc)
             sg == [ista |-> (n - 1) \div NGRP, igrp |-> (n - 1) % NGRP]
             cc == CcAccumulate(CcReset(before.cc), greens_data, sources, groups,
                                weights, isrc, sg.ista, sg.igrp)
             itpad == CcArgmax(cc, NPAD)
         IN  [cc |-> cc,
              L2_sum |-> ResidualLoop(before.L2_sum, NC, data_data, greens_data,
                             greens_greens, sources, groups, weights, hybrid_norm,
                             dt, isrc, sg, itpad)]

\* line 23 (mutant: the sum runs on from the previous source)
L2SumCarried(st) == st.L2_sum

\* line 23: L2_sum = 0.0
L2SumStart(st) == FNum(0)

\* lines 22-74: the state [cc, results] after the first n sources
RECURSIVE SourceLoop(_, _, _, _, _, _, _, _, _, _, _)
SourceLoop(st, n, data_data, greens_data, greens_greens, sources, groups, weights, hybrid_norm, dt, NPAD) ==
    IF n = 0 THEN st
    ELSE LET NSTA == weights.shape[1]
             NGRP == groups.shape[1]
             before == SourceLoop(st, n - 1, data_data, greens_data, greens_greens,
                           sources, groups, weights, hybrid_norm, dt, NPAD)
             isrc == n - 1
             after == StationGroupLoop(
                          [cc |-> before.cc, L2_sum |-> L2SumStart(before)],
                          NSTA * NGRP, data_data, greens_data, greens_greens,
                          sources, groups, weights, hybrid_norm, dt, NPAD, isrc)
         IN  [cc |-> after.cc,
              L2_sum |-> after.L2_sum,
              results |-> [before.results EXCEPT ![isrc] = [j \in {0} |-> after.L2_sum]]]

\* numba_L2.misfit
misfit(data_data, greens_data, greens_greens, sources, groups, weights, hybrid_norm, dt, NPAD1, NPAD2) ==
    LET NSRC == sources.shape[1]
        NPAD == NPAD1 + NPAD2 + 1
        results == Zeros(NSRC)
        cc == [it \in 0..(NPAD - 1) |-> 0]
        final == SourceLoop([cc |-> cc, L2_sum |-> FNum(0), results |-> results.at],
                            NSRC, data_data, greens_data, greens_greens, sources,
                            groups, weights, hybrid_norm, dt, NPAD)
    IN  [shape |-> results.shape, at |-> final.results]

(***************************************************************************)
(* Datasets and Green's functions (the external collaborators of the       *)
(* facade, from sections 3 and 6 of the specification).                    *)
(*   dataset   a list of streams, one per station                          *)
(*   stream    a list of traces [component, weight, delta, samples]        *)
(*   greens    a list of Green's tensors, one per station:                 *)
(*             [delta, pad_left, pad_right, basis], basis[c] the list of   *)
(*             the NG basis traces of component c, each of                 *)
(*             pad_left + npts + pad_right samples                         *)
(*   sources   a list of basis-weight vectors (section 4.3)                *)
(***************************************************************************)
\* mtuq.util.signal.isempty
isempty(data) == Len(data) = 0

\* mtuq.util.iterable: "makes things work if just a single source is given"
iterable(sources) == IF sources.single THEN <<sources.item>> ELSE sources.items

\* the component labels of a stream, in trace order
get_components(stream) == [k \in DOMAIN stream |-> stream[k].component]

\* Dataset.get_components
Dataset_get_components(data) == [j \in DOMAIN data |-> get_components(data[j])]

\* the lag window in samples: time shifts bounds converted with dt
PadSamples(time_shift, delta) == Abs(time_shift) \div delta

\* mtuq.util.signal.check_padding: the padding of every Green's tensor covers
\* the lag window of the time-shift bounds
check_padding(greens, time_shift_min, time_shift_max) ==
    \A j \in DOMAIN greens :
        /\ PadSamples(time_shift_min, greens[j].delta) <= greens[j].pad_left
        /\ PadSamples(time_shift_max, greens[j].delta) <= greens[j].pad_right

\* the last trace of a stream with component c, or 0 when there is none
TraceIndex(stream, c) ==
    LET ks == {k \in DOMAIN stream : stream[k].component = c}
    IN  IF ks = {} THEN 0 ELSE CHOOSE k \in ks : \A m \in ks : m <= k

\* sum of f[i] for i in 1..n
RECURSIVE SumSeq(_, _)
SumSeq(f, n) == IF n = 0 THEN 0 ELSE SumSeq(f, n - 1) + f[n]

Dot(a, b, n) == SumSeq([t \in 1..n |-> a[t] * b[t]], n)

\* the samples of a basis trace that face the data at lag index it
Window(g, pad_left, NPAD1, it, npts) ==
    [t \in 1..npts |-> g[t + (pad_left - NPAD1) + it]]

(***************************************************************************)
(* The cross-correlation tensors of section 3, as numpy arrays             *)
(***************************************************************************)
NC == Len(Components)

NGOf(greens) == IF Len(greens) = 0 THEN 0 ELSE Len(greens[1].basis["Z"])

weights_array(data) ==
    [shape |-> <<Len(data), NC>>,
     at |-> [ista \in 0..(Len(data) - 1) |->
               [ic \in 0..(NC - 1) |->
                  LET k == TraceIndex(data[ista + 1], Components[ic + 1])
                  IN  IF k = 0 THEN 0 ELSE data[ista + 1][k].weight]]]

groups_array(time_shift_groups) ==
    [shape |-> <<Len(time_shift_groups), NC>>,
     at |-> [igrp \in 0..(Len(time_shift_groups) - 1) |->
               [ic \in 0..(NC - 1) |->
                  IF Components[ic + 1] \in SeqToSet(time_shift_groups[igrp + 1])
                  THEN 1 ELSE 0]]]

\* the basis length of the source weights: the length of a row, and with no
\* row that of the Green's functions
NGOfSources(sources, greens) ==
    IF Len(sources) = 0 THEN NGOf(greens) ELSE Len(sources[1])

sources_array(sources, NG) ==
    [shape |-> <<Len(sources), NG>>,
     at |-> [isrc \in 0..(Len(sources) - 1) |->
               [ig \in 0..(NG - 1) |-> sources[isrc + 1][ig + 1]]]]

\* data_energy[station, component]
data_data_array(data) ==
    [shape |-> <<Len(data), NC>>,
     at |-> [ista \in 0..(Len(data) - 1) |->
               [ic \in 0..(NC - 1) |->
                  LET k == TraceIndex(data[ista + 1], Components[ic + 1])
                      d == data[ista + 1][k].samples
                  IN  IF k = 0 THEN 0 ELSE Dot(d, d, Len(d))]]]

\* data_basis_xcorr[station, component, basis_index, lag]
greens_data_array(data, greens, NPAD1, NPAD2) ==
    LET NG == NGOf(greens)
        NPAD == NPAD1 + NPAD2 + 1
    IN  [shape |-> <<Len(data), NC, NG, NPAD>>,
         at |-> [ista \in 0..(Len(data) - 1) |->
                   [ic \in 0..(NC - 1) |->
                      [ig \in 0..(NG - 1) |->
                         [it \in 0..(NPAD - 1) |->
                            LET c == Components[ic + 1]
                                k == TraceIndex(data[ista + 1], c)
                                d == data[ista + 1][k].samples
                                g == greens[ista + 1].basis[c][ig + 1]
                            IN  IF k = 0 THEN 0
                                ELSE Dot(d, Window(g, greens[ista + 1].pad_left,
                                                   NPAD1, it, Len(d)), Len(d))]]]]]

\* basis_basis_xcorr[station, component, lag, basis_i, basis_j]
greens_greens_array(data, greens, NPAD1, NPAD2) ==
    LET NG == NGOf(greens)
        NPAD == NPAD1 + NPAD2 + 1
    IN  [shape |-> <<Len(data), NC, NPAD, NG, NG>>,
         at |-> [ista \in 0..(Len(data) - 1) |->
                   [ic \in 0..(NC - 1) |->
                      [it \in 0..(NPAD - 1) |->
                         [j1 \in 0..(NG - 1) |->
                            [j2 \in 0..(NG - 1) |->
                               LET c == Components[ic + 1]
                                   k == TraceIndex(data[ista + 1], c)
                                   n == Len(data[ista + 1][k].samples)
                                   pl == greens[ista + 1].pad_left
                                   g1 == greens[ista + 1].basis[c][j1 + 1]
                                   g2 == greens[ista + 1].basis[c][j2 + 1]
                               IN  IF k = 0 THEN 0
                                   ELSE Dot(Window(g1, pl, NPAD1, it, n),
                                            Window(g2, pl, NPAD1, it, n), n)]]]]]]

\* the sample interval shared by the traces of a dataset
DeltaOf(data) ==
    LET js == {j \in DOMAIN data : Len(data[j]) > 0}
    IN  IF js = {} THEN 1 ELSE data[CHOOSE j \in js : \A m \in js : j <= m][1].delta

\* an array is filled when it is built, not when it is read
Filled(a) == IF a = a THEN a ELSE a

\* everything a kernel reads, built once per evaluation
Tensors(data, greens, sources, norm, time_shift_groups, time_shift_min, time_shift_max) ==
    LET dt == DeltaOf(data)
        NPAD1 == PadSamples(time_shift_min, dt)
        NPAD2 == PadSamples(time_shift_max, dt)
    IN  [data_data |-> Filled(data_data_array(data)),
         greens_data |-> Filled(greens_data_array(data, greens, NPAD1, NPAD2)),
         greens_greens |-> Filled(greens_greens_array(data, greens, NPAD1, NPAD2)),
         sources |-> Filled(sources_array(sources, NGOfSources(sources, greens))),
         groups |-> Filled(groups_array(time_shift_groups)),
         weights |-> Filled(weights_array(data)),
         hybrid_norm |-> IF norm = L2 THEN 0 ELSE 1,
         dt |-> dt, NPAD1 |-> NPAD1, NPAD2 |-> NPAD2]

(***************************************************************************)
(* The reference algorithm of section 4.2 of the specification, on the     *)
(* tensors: the correlation curve weighted by the component weight, the    *)
(* first maximum, the residual clamped at zero under the square root.      *)
(***************************************************************************)
RefActive(T, ista, igrp, ic) ==
    /\ T.groups.at[igrp][ic] # 0
    /\ Abs(T.weights.at[ista][ic]) >= WeightEps

RefCc(T, isrc, ista, igrp) ==
    LET NG == T.sources.shape[2]
    IN  [it \in 0..(T.NPAD1 + T.NPAD2) |->
           SumTo([ic \in 0..(NC - 1) |->
                    IF RefActive(T, ista, igrp, ic)
                    THEN SumTo([ig \in 0..(NG - 1) |->
                                  T.weights.at[ista][ic]
                                    * T.greens_data.at[ista][ic][ig][it]
                                    * T.sources.at[isrc][ig]], NG)
                    ELSE 0], NC)]

RefLag(T, isrc, ista, igrp) ==
    LET cc == RefCc(T, isrc, ista, igrp)
        best == {it \in DOMAIN cc : \A other \in DOMAIN cc : cc[other] <= cc[it]}
    IN  CHOOSE it \in best : \A other \in best : it <= other

RefResidual(T, isrc, ista, ic, lag) ==
    LET NG == T.sources.shape[2]
    IN  SumTo([j1 \in 0..(NG - 1) |->
           SumTo([j2 \in 0..(NG - 1) |->
               T.sources.at[isrc][j1] * T.sources.at[isrc][j2]
                 * T.greens_greens.at[ista][ic][lag][j1][j2]], NG)], NG)
        + T.data_data.at[ista][ic]
        - 2 * SumTo([ig \in 0..(NG - 1) |->
                 T.greens_data.at[ista][ic][ig][lag] * T.sources.at[isrc][ig]], NG)

RefTerm(T, isrc, ista, igrp, ic) ==
    LET r == RefResidual(T, isrc, ista, ic, RefLag(T, isrc, ista, igrp))
    IN  IF T.hybrid_norm = 0
        THEN T.dt * T.weights.at[ista][ic] * r
        ELSE T.dt * T.weights.at[ista][ic] * ISqrt(IF r < 0 THEN 0 ELSE r)

RefTotal(T, isrc) ==
    LET NSTA == T.weights.shape[1]
        NGRP == T.groups.shape[1]
    IN  SumTo([ista \in 0..(NSTA - 1) |->
           SumTo([igrp \in 0..(NGRP - 1) |->
              SumTo([ic \in 0..(NC - 1) |->
                       IF RefActive(T, ista, igrp, ic)
                       THEN RefTerm(T, isrc, ista, igrp, ic) ELSE 0], NC)],
              NGRP)], NSTA)

reference_misfit(T) ==
    [shape |-> <<T.sources.shape[1], 1>>,
     at |-> [isrc \in 0..(T.sources.shape[1] - 1) |->
               [j \in {0} |-> FNum(RefTotal(T, isrc))]]]

\* the normalization factor: the same sum taken on the data energy alone
norm_data(T) ==
    LET NSTA == T.weights.shape[1]
        NGRP == T.groups.shape[1]
    IN  SumTo([ista \in 0..(NSTA - 1) |->
           SumTo([igrp \in 0..(NGRP - 1) |->
              SumTo([ic \in 0..(NC - 1) |->
                       IF RefActive(T, ista, igrp, ic)
                       THEN IF T.hybrid_norm = 0
                            THEN T.dt * T.weights.at[ista][ic] * T.data_data.at[ista][ic]
                            ELSE T.dt * T.weights.at[ista][ic]
                                   * ISqrt(T.data_data.at[ista][ic])
                       ELSE 0], NC)],
              NGRP)], NSTA)

\* values /= norm_data, when normalize is set
Normalized(values, T, normalize) ==
    IF normalize
    THEN [shape |-> values.shape,
          at |-> [isrc \in DOMAIN values.at |->
                    [j \in {0} |-> FDiv(values.at[isrc][0], norm_data(T))]]]
    ELSE values

(***************************************************************************)
(* Side effects, as events of a call's trace                               *)
(***************************************************************************)
Ev(name) ==
    [ev |-> name, tier |-> "", normalize |-> FALSE, set_attributes |-> FALSE, ext |-> ""]

KernelEv(tier, normalize, set_attributes, ext) ==
    [ev |-> "kernel", tier |-> tier, normalize |-> normalize,
     set_attributes |-> set_attributes, ext |-> ext]

(***************************************************************************)
(* The kernel tiers behind the facade.  level0 and level1 evaluate the     *)
(* reference algorithm; level2 builds the tensors and hands them to the    *)
(* numba kernel, or to the Cython extension when ext = 'Cython'.  Building *)
(* the tensors fails on station counts that differ and on padding that     *)
(* does not cover the lag window (section 4.1).                            *)
(* None of them compares the basis length of the sources with that of the  *)
(* tensors (section 4.1 lists the two failures above; section 5 leaves     *)
(* that rejection to the facade): the reference algorithm, in Python,      *)
(* fails with an IndexError on the first basis index past the tensors; the *)
(* compiled kernel reads past them, and the process may also be killed.    *)
(***************************************************************************)
\* the sources have more basis weights than the tensors have basis functions
BasisOverrun(T) == T.sources.shape[2] > T.greens_data.shape[3]

TierResult(values) == [status |-> "return", exc |-> "", value |-> values]

TierError(exc) == [status |-> "raise", exc |-> exc, value |-> <<>>]

level0_misfit(data, greens, sources, norm, time_shift_groups, time_shift_min, time_shift_max, normalize, set_attributes) ==
    IF Len(data) # Len(greens) THEN TierError("InconsistentLengthError")
    ELSE IF ~check_padding(greens, time_shift_min, time_shift_max)
      THEN TierError("PaddingError")
    ELSE LET T == Tensors(data, greens, sources, norm, time_shift_groups,
                          time_shift_min, time_shift_max)
         IN  IF BasisOverrun(T) THEN TierError("IndexError")
             ELSE TierResult(Normalized(reference_misfit(T), T, normalize))

level1_misfit(data, greens, sources, norm, time_shift_groups, time_shift_min, time_shift_max, normalize) ==
    IF Len(data) # Len(greens) THEN TierError("InconsistentLengthError")
    ELSE IF ~check_padding(greens, time_shift_min, time_shift_max)
      THEN TierError("PaddingError")
    ELSE LET T == Tensors(data, greens, sources, norm, time_shift_groups,
                          time_shift_min, time_shift_max)
         IN  IF BasisOverrun(T) THEN TierError("IndexError")
             ELSE TierResult(Normalized(reference_misfit(T), T, normalize))

level2_misfit(data, greens, sources, norm, time_shift_groups, time_shift_min, time_shift_max, normalize, ext) ==
    IF Len(data) # Len(greens) THEN TierError("InconsistentLengthError")
    ELSE IF ~check_padding(greens, time_shift_min, time_shift_max)
      THEN TierError("PaddingError")
    ELSE LET T == Tensors(data, greens, sources, norm, time_shift_groups,
                          time_shift_min, time_shift_max)
             values == IF ext = "Cython"
                       THEN reference_misfit(T)
                       ELSE misfit(T.data_data, T.greens_data, T.greens_greens,
                                   T.sources, T.groups, T.weights, T.hybrid_norm,
                                   T.dt, T.NPAD1, T.NPAD2)
         IN  IF BasisOverrun(T) /\ ext = "Cython" THEN TierError("IndexError")
             ELSE IF BasisOverrun(T) /\ beyond.fault
               THEN TierError("SegmentationFault")
             ELSE TierResult(Normalized(values, T, normalize))

\* the attributes level0 attaches, with set_attributes, to the synthetic trace of
\* component c of station j (1-based): those of the last group that holds c
level0_has_attrs(data, time_shift_groups, j, c) ==
    /\ \E k \in DOMAIN data[j] :
          data[j][k].component = c /\ Abs(data[j][k].weight) >= WeightEps
    /\ \E g \in DOMAIN time_shift_groups : c \in SeqToSet(time_shift_groups[g])

level0_attrs(T, time_shift_groups, j, c) ==
    LET gs == {g \in DOMAIN time_shift_groups : c \in SeqToSet(time_shift_groups[g])}
        g == CHOOSE x \in gs : \A y \in gs : y <= x
        ic == CHOOSE i \in 0..(NC - 1) : Components[i + 1] = c
    IN  [time_shift |-> RefLag(T, 0, j - 1, g - 1) - T.NPAD1,
         misfit |-> RefTerm(T, 0, j - 1, g - 1, ic)]

\* GreensTensorList.get_synthetics(source, components, mode='map', inplace=True):
\* per station, one synthetic trace per listed component
Synthetic(tensor, source, c) ==
    LET n == Len(tensor.basis[c][1])
    IN  [t \in 1..n |->
           SumSeq([ig \in 1..Len(source) |-> source[ig] * tensor.basis[c][ig][t]],
                  Len(source))]

get_synthetics(greens, source, components) ==
    [j \in DOMAIN greens |->
       [k \in DOMAIN components[j] |->
          [component |-> components[j][k],
           samples |-> Synthetic(greens[j], source, components[j][k]),
           has_attrs |-> FALSE,
           attrs |-> <<>>]]]

\* the synthetics after level0 ran over them with set_attributes
with_attrs(synthetics, data, greens, source, norm, time_shift_groups, time_shift_min, time_shift_max) ==
    LET T == Tensors(data, greens, <<source>>, norm, time_shift_groups,
                     time_shift_min, time_shift_max)
    IN  [j \in DOMAIN synthetics |->
           [k \in DOMAIN synthetics[j] |->
              LET c == synthetics[j][k].component
              IN  IF level0_has_attrs(data, time_shift_groups, j, c)
                  THEN [synthetics[j][k] EXCEPT
                          !.has_attrs = TRUE,
                          !.attrs = level0_attrs(T, time_shift_groups, j, c)]
                  ELSE synthetics[j][k]]]

(***************************************************************************)
(* WaveformMisfit.__call__                                                 *)
(* normalize is "absent" (not passed), "None", "True" or "False"; level is *)
(* <<>> (None, the default) or <<l>>.                                      *)
(***************************************************************************)
\* line 179 (mutant: the default is None, as for level)
BindNormalizeNone(normalize) == IF normalize = "absent" THEN "None" ELSE normalize

\* line 179: the parameter's default, normalize=True
BindNormalize(normalize) == IF normalize = "absent" THEN "True" ELSE normalize

\* lines 182-183
EffectiveNormalize(self, normalize) ==
    IF BindNormalize(normalize) = "None" THEN self.normalize
    ELSE BindNormalize(normalize) = "True"

\* lines 185-186 (mutant: the constructed level always wins)
EffectiveLevelSelf(self, level) == self.level

\* lines 185-186
EffectiveLevel(self, level) == IF level = <<>> THEN self.level ELSE level[1]

\* line 188
CallLevels == {0, 1, 2, 3}

\* line 197 (mutant: a scalar zero whatever the number of sources)
EmptyResultOne(sources) == Zeros(1)

\* line 197: np.zeros((len(sources), 1))
EmptyResult(sources) == Zeros(Len(sources))

\* line 200 (mutant: the lengths are not compared)
LengthsUnchecked(data, greens) == TRUE

\* line 200
LengthsConsistent(data, greens) == Len(data) = Len(greens)

\* lines 201-203 (mutant: len(data) is printed twice)
InconsistentMessageTwice(data, greens) ==
    <<"Inconsistent container lengths", "len(data):", Len(data),
      "len(greens):", Len(data)>>

\* lines 201-203: the message, as its text pieces and the two formatted %d
InconsistentMessage(data, greens) ==
    <<"Inconsistent container lengths", "len(data):", Len(data),
      "len(greens):", Len(greens)>>

\* lines 208, 247, 306 (mutant: the check is not made)
PaddingUnchecked(self, greens) == TRUE

\* lines 208, 247, 306: check_padding(greens, self.time_shift_min, self.time_shift_max)
PaddingOk(self, greens) ==
    check_padding(greens, self.time_shift_min, self.time_shift_max)

\* lines 211-233 (mutant: set_attributes does not force the reference tier)
TierOfLevelOnly(level, set_attributes) ==
    CASE level = 0 -> [tier |-> "level0", ext |-> ""]
      [] level = 1 -> [tier |-> "level1", ext |-> ""]
      [] level = 2 -> [tier |-> "level2", ext |-> "numba"]
      [] level = 3 -> [tier |-> "level2", ext |-> "Cython"]

\* lines 211-233: the tier a call dispatches to
TierOf(level, set_attributes) ==
    IF level = 0 \/ set_attributes THEN [tier |-> "level0", ext |-> ""]
    ELSE IF level = 1 THEN [tier |-> "level1", ext |-> ""]
    ELSE IF level = 2 THEN [tier |-> "level2", ext |-> "numba"]
    ELSE [tier |-> "level2", ext |-> "Cython"]

\* the call of the tier, with the facade's arguments
RunTier(t, self, data, greens, sources, normalize, set_attributes) ==
    CASE t.tier = "level0" ->
           level0_misfit(data, greens, sources, self.norm, self.time_shift_groups,
                         self.time_shift_min, self.time_shift_max, normalize,
                         set_attributes)
      [] t.tier = "level1" ->
           level1_misfit(data, greens, sources, self.norm, self.time_shift_groups,
                         self.time_shift_min, self.time_shift_max, normalize)
      [] t.tier = "level2" ->
           level2_misfit(data, greens, sources, self.norm, self.time_shift_groups,
                         self.time_shift_min, self.time_shift_max, normalize, t.ext)

\* the outcome of a tier call made after the events before
AfterTier(r, before, kev) ==
    IF r.status = "return" THEN Return(r.value, before \o <<kev>>)
    ELSE Raise(r.exc, <<>>, before \o <<kev>>)

\* (mutant: the padding check is made before the length check)
WaveformMisfit_call_PaddingFirst(self, data, greens, sources, normalize, set_attributes, level) ==
    LET normalize1 == EffectiveNormalize(self, normalize)
        level1 == EffectiveLevel(self, level)
        sources1 == iterable(sources)
        t == TierOf(level1, set_attributes)
    IN  IF level1 \notin CallLevels
          THEN Raise("AssertionError", <<>>, <<>>)
        ELSE IF isempty(data)
          THEN Return(EmptyResult(sources1), <<Ev("warn")>>)
        ELSE IF ~PaddingOk(self, greens)
          THEN Raise("PaddingError", <<>>, <<Ev("check_padding")>>)
        ELSE IF ~LengthsConsistent(data, greens)
          THEN Raise("Exception", InconsistentMessage(data, greens),
                     <<Ev("check_padding")>>)
        ELSE AfterTier(RunTier(t, self, data, greens, sources1, normalize1,
                               set_attributes),
                       <<Ev("check_padding")>>,
                       KernelEv(t.tier, normalize1, set_attributes, t.ext))

\* lines 178-233
WaveformMisfit_call(self, data, greens, sources, normalize, set_attributes, level) ==
    LET normalize1 == EffectiveNormalize(self, normalize)
        level1 == EffectiveLevel(self, level)
        sources1 == iterable(sources)
        t == TierOf(level1, set_attributes)
    IN  IF level1 \notin CallLevels
          THEN Raise("AssertionError", <<>>, <<>>)
        ELSE IF isempty(data)
          THEN Return(EmptyResult(sources1), <<Ev("warn")>>)
        ELSE IF ~LengthsConsistent(data, greens)
          THEN Raise("Exception", InconsistentMessage(data, greens), <<>>)
        ELSE IF ~PaddingOk(self, greens)
          THEN Raise("PaddingError", <<>>, <<Ev("check_padding")>>)
        ELSE AfterTier(RunTier(t, self, data, greens, sources1, normalize1,
                               set_attributes),
                       <<Ev("check_padding")>>,
                       KernelEv(t.tier, normalize1, set_attributes, t.ext))

(***************************************************************************)
(* WaveformMisfit.collect_attributes                                       *)
(***************************************************************************)
\* lines 260-268: per stream a dict, component -> attrs of the traces that have
\* attrs; a later trace of the same component overwrites the earlier one
RECURSIVE StreamAttrs(_, _)
StreamAttrs(stream, n) ==
    IF n = 0 THEN <<>>
    ELSE LET before == StreamAttrs(stream, n - 1)
             trace == stream[n]
         IN  IF trace.has_attrs
             THEN [c \in DOMAIN before \cup {trace.component} |->
                     IF c = trace.component THEN trace.attrs ELSE before[c]]
             ELSE before

\* lines 260-268 (mutant: a record for every trace, with attrs or not)
RECURSIVE StreamAttrsAll(_, _)
StreamAttrsAll(stream, n) ==
    IF n = 0 THEN <<>>
    ELSE LET before == StreamAttrsAll(stream, n - 1)
             trace == stream[n]
         IN  [c \in DOMAIN before \cup {trace.component} |->
                IF c = trace.component THEN trace.attrs ELSE before[c]]

CollectAttrsAll(synthetics) ==
    [j \in DOMAIN synthetics |-> StreamAttrsAll(synthetics[j], Len(synthetics[j]))]

\* lines 260-270
CollectAttrs(synthetics) ==
    [j \in DOMAIN synthetics |-> StreamAttrs(synthetics[j], Len(synthetics[j]))]

\* the run of get_synthetics and of level0 that both collect_ methods share
\* (lines 249-257 and 309-317)
SyntheticsWithAttrs(self, data, greens, source, components, normalize, before) ==
    IF Len(components) # Len(greens)
      THEN Raise("InconsistentLengthError", <<>>, before \o <<Ev("get_synthetics")>>)
    ELSE LET synthetics == get_synthetics(greens, source, components)
             r == level0_misfit(data, greens, <<source>>, self.norm,
                      self.time_shift_groups, self.time_shift_min,
                      self.time_shift_max, normalize, TRUE)
             events == before \o <<Ev("get_synthetics"),
                                   KernelEv("level0", normalize, TRUE, "")>>
         IN  IF r.status = "raise" THEN Raise(r.exc, <<>>, events)
             ELSE Return(with_attrs(synthetics, data, greens, source, self.norm,
                             self.time_shift_groups, self.time_shift_min,
                             self.time_shift_max),
                         events)

\* get_synthetics(..., inplace=True), lines 249-251 and 308-310: the traces
\* returned are the ones the Green's tensors hold from then on
Holding(greens, synthetics) ==
    [j \in DOMAIN greens |-> [greens[j] EXCEPT !.synthetics = synthetics[j]]]

\* lines 249-257 and 308-316: the Green's tensors after get_synthetics and the
\* level-0 evaluation with set_attributes=True, whose return value is dropped:
\* the attributes the caller reads at lines 260-268 are on the traces held
GreensWithAttrs(self, data, greens, source, components, normalize) ==
    LET r == SyntheticsWithAttrs(self, data, greens, source, components,
                                 normalize, <<>>)
    IN  IF Len(components) # Len(greens) THEN greens
        ELSE IF r.status = "raise"
          THEN Holding(greens, get_synthetics(greens, source, components))
        ELSE Holding(greens, r.value)

\* lines 241-257: the Green's tensors after collect_attributes
Greens_after_collect_attributes(self, data, greens, source, normalize) ==
    IF isempty(data) \/ ~PaddingOk(self, greens) THEN greens
    ELSE GreensWithAttrs(self, data, greens, source, Dataset_get_components(data),
                         normalize)

WaveformMisfit_collect_attributes(self, data, greens, source, normalize) ==
    IF isempty(data)
      THEN Return(<<>>, <<Ev("warn")>>)
    ELSE IF ~PaddingOk(self, greens)
      THEN Raise("PaddingError", <<>>, <<Ev("check_padding")>>)
    ELSE LET r == SyntheticsWithAttrs(self, data, greens, source,
                      Dataset_get_components(data), normalize,
                      <<Ev("check_padding")>>)
         IN  IF r.status = "raise" THEN r
             ELSE Return(CollectAttrs(r.value), r.events)

(***************************************************************************)
(* WaveformMisfit.collect_synthetics                                       *)
(***************************************************************************)
\* mtuq.util.math.list_intersect: the elements of a that are in b, in a's order
list_intersect(a, b) == SelectSeq(a, LAMBDA x : x \in SeqToSet(b))

\* lines 289-292: the components of all groups, in order
RECURSIVE ActiveComponents(_)
ActiveComponents(time_shift_groups) ==
    IF time_shift_groups = <<>> THEN <<>>
    ELSE Head(time_shift_groups) \o ActiveComponents(Tail(time_shift_groups))

\* lines 277-296 (mutant: mode 3 does not intersect with the groups)
SyntheticsComponentsOfData(self, data, mode) ==
    CASE mode = 1 -> [j \in DOMAIN data |-> Components]
      [] mode \in {2, 3} -> Dataset_get_components(data)

\* lines 277-296: the components to materialize, per station
SyntheticsComponents(self, data, mode) ==
    CASE mode = 1 -> [j \in DOMAIN data |-> Components]
      [] mode = 2 -> Dataset_get_components(data)
      [] mode = 3 -> [j \in DOMAIN data |->
                        list_intersect(ActiveComponents(self.time_shift_groups),
                                       get_components(data[j]))]

\* lines 299-316: the Green's tensors after collect_synthetics
Greens_after_collect_synthetics(self, data, greens, source, normalize, mode) ==
    IF isempty(data) \/ ~PaddingOk(self, greens) \/ mode \notin {1, 2, 3} THEN greens
    ELSE GreensWithAttrs(self, data, greens, source,
                         SyntheticsComponents(self, data, mode), FALSE)

\* lines 211-215: the Green's tensors after a call: one that records
\* attributes leaves them on the synthetics of the last source
Greens_after_call(self, data, greens, sources, normalize, set_attributes, level) ==
    LET out == WaveformMisfit_call(self, data, greens, sources, normalize,
                                   set_attributes, level)
        sources1 == iterable(sources)
    IN  IF set_attributes /\ out.status = "return" /\ ~isempty(data)
             /\ Len(sources1) > 0
          THEN GreensWithAttrs(self, data, greens, sources1[Len(sources1)],
                               Dataset_get_components(data),
                               EffectiveNormalize(self, normalize))
        ELSE greens

WaveformMisfit_collect_synthetics(self, data, greens, source, normalize, mode) ==
    IF isempty(data)
      THEN Return(<<>>, <<Ev("warn")>>)
    ELSE IF ~PaddingOk(self, greens)
      THEN Raise("PaddingError", <<>>, <<Ev("check_padding")>>)
    ELSE IF mode \notin {1, 2, 3}
      THEN Raise("UnboundLocalError", <<"components">>, <<Ev("check_padding")>>)
    ELSE SyntheticsWithAttrs(self, data, greens, source,
             SyntheticsComponents(self, data, mode), FALSE,
             <<Ev("check_padding")>>)

(***************************************************************************)
(* Inputs: the constructor's arguments and the caller's data               *)
(***************************************************************************)
NormNames ==
    {L1, L2, hybrid,
     <<"H", "y", "b", "r", "i", "d">>, <<"H", "Y", "B", "R", "I", "D">>,
     <<"l", "2">>, <<"L", "3">>}

TimeShifts == {-2, 0, 2}

GroupArgs ==
    {[type |-> "list",  items |-> <<<<"Z", "R", "T">>>>],
     [type |-> "list",  items |-> <<<<"Z", "R">>, <<"T">>>>],
     [type |-> "tuple", items |-> <<<<"Z">>, <<"R">>, <<"T">>>>],
     [type |-> "list",  items |-> <<<<"Z">>, <<"Z", "R">>>>],
     [type |-> "list",  items |-> <<<<"Z", "X">>>>],
     [type |-> "list",  items |-> <<>>],
     [type |-> "str",   items |-> <<<<"Z">>, <<"R">>, <<"T">>>>]}

LevelArgs == {0, 1, 2, 3, 4}

\* every combination of the constructor's arguments
AllArgs ==
    {[norm |-> n, time_shift_groups |-> g, time_shift_min |-> a,
      time_shift_max |-> b, level |-> l, normalize |-> z] :
        n \in NormNames, g \in GroupArgs, a \in TimeShifts, b \in TimeShifts,
        l \in LevelArgs, z \in BOOLEAN}

OneGroup == [type |-> "list", items |-> <<<<"Z", "R", "T">>>>]

SeparateGroups == [type |-> "list", items |-> <<<<"Z">>, <<"R", "T">>>>]

OverlappingGroups == [type |-> "list", items |-> <<<<"Z">>, <<"Z", "R">>>>]

\* the constructor's arguments of the evaluations: normalize=True at every level
\* with every norm on one group of all components and with the quadratic norm
\* on separate and on overlapping groups, and normalize=False at every level
\* with the quadratic norm on one group
EvalArgs ==
    {[norm |-> n, time_shift_groups |-> OneGroup, time_shift_min |-> 0,
      time_shift_max |-> 2, level |-> l, normalize |-> TRUE] :
        n \in {L1, L2, hybrid}, l \in {0, 1, 2}}
    \cup {[norm |-> L2, time_shift_groups |-> SeparateGroups,
            time_shift_min |-> -2, time_shift_max |-> 2, level |-> l,
            normalize |-> TRUE] : l \in {0, 1, 2}}
    \cup {[norm |-> L2, time_shift_groups |-> OverlappingGroups,
            time_shift_min |-> 0, time_shift_max |-> 0, level |-> l,
            normalize |-> TRUE] : l \in {0, 1, 2}}
    \cup {[norm |-> L2, time_shift_groups |-> OneGroup, time_shift_min |-> 0,
            time_shift_max |-> 2, level |-> l, normalize |-> FALSE] :
             l \in {0, 1, 2}}

Tr(c, w, s) == [component |-> c, weight |-> w, delta |-> 2, samples |-> s]

\* two components of unequal weight
StreamZR == <<Tr("Z", 2, <<2, 0>>), Tr("R", 8, <<0, 1>>)>>

\* a component below the weight threshold, and two traces of one component
StreamZTT == <<Tr("Z", 1, <<1, 1>>), Tr("T", 4, <<0, 1>>), Tr("T", 4, <<1, 0>>)>>

Streams == {StreamZR, StreamZTT}

\* a Green's tensor with one sample of padding on either side; synthetics are
\* the traces it holds once get_synthetics has generated them in place
GreensPadded ==
    [delta |-> 2, pad_left |-> 1, pad_right |-> 1,
     basis |-> [c \in {"Z", "R", "T"} |->
                  CASE c = "Z" -> << <<0, 1, 0, 0>>, <<0, 0, 1, 0>> >>
                    [] c = "R" -> << <<0, 0, 0, 1>>, <<0, 1, 0, 0>> >>
                    [] c = "T" -> << <<0, 0, 1, 0>>, <<0, 1, 1, 0>> >>],
     synthetics |-> <<>>]

\* a Green's tensor without padding
GreensUnpadded ==
    [delta |-> 2, pad_left |-> 0, pad_right |-> 0,
     basis |-> [c \in {"Z", "R", "T"} |->
                  CASE c = "Z" -> << <<1, 0>>, <<0, 1>> >>
                    [] c = "R" -> << <<0, 1>>, <<1, 1>> >>
                    [] c = "T" -> << <<0, 1>>, <<1, 0>> >>],
     synthetics |-> <<>>]

GreensTensors == {GreensPadded, GreensUnpadded}

MaxStations == 2

MaxSources == 2

SeqsUpTo(S, n) == UNION {[1..m -> S] : m \in 0..n}

Datasets == SeqsUpTo(Streams, MaxStations)

\* the Green's tensors of up to MaxStations stations of one database
GreensLists == {[j \in 1..m |-> g] : m \in 0..MaxStations, g \in GreensTensors}

SourceVectors == {<<1, 0>>, <<1, 1>>}

SourceList(s) == [single |-> FALSE, item |-> <<>>, items |-> s]

SingleSource(v) == [single |-> TRUE, item |-> v, items |-> <<>>]

SourceArgs ==
    {SourceList(s) : s \in SeqsUpTo(SourceVectors, MaxSources)}
    \cup {SingleSource(<<1, 1>>)}

\* what the caller holds: every dataset with every list of Green's tensors and a
\* batch of two sources, and every batch of sources with a one-station dataset
\* what a read past the end of the tensors yields when none is made
NothingBeyond == [fault |-> FALSE, value |-> 0]

\* what a read past the end of the tensors yields: a number, or a fault
Beyonds ==
    {[fault |-> FALSE, value |-> v] : v \in {0, 3}} \cup {[fault |-> TRUE, value |-> 0]}

\* sources whose basis length is not the two of the Green's functions
MismatchedSources == {SourceList(<< <<1>> >>), SourceList(<< <<1, 0, 1>> >>)}

Environments ==
    {[data |-> d, greens |-> g, sources |-> SourceList(<< <<1, 0>>, <<1, 1>> >>),
      beyond |-> NothingBeyond] :
        d \in Datasets, g \in GreensLists}
    \cup {[data |-> <<StreamZR>>, greens |-> <<GreensPadded>>, sources |-> s,
           beyond |-> NothingBeyond] :
             s \in SourceArgs}
    \cup {[data |-> <<StreamZR>>, greens |-> <<GreensPadded>>, sources |-> s,
           beyond |-> b] :
             s \in MismatchedSources, b \in Beyonds}

NormalizeArgs == {"absent", "None", "True", "False"}

LevelCallArgs == {<<>>} \cup {<<l>> : l \in LevelArgs}

\* the keyword arguments of a call: every normalize at the constructed level,
\* and every level with and without set_attributes
CallArgs ==
    {[normalize |-> n, set_attributes |-> FALSE, level |-> <<>>] :
        n \in NormalizeArgs}
    \cup {[normalize |-> "False", set_attributes |-> a, level |-> l] :
             a \in BOOLEAN, l \in LevelCallArgs}

Modes == {1, 2, 3, 4}

\* the one source of collect_attributes and collect_synthetics
CollectSources == {<<1, 1>>}

NoCall == [op |-> "none", args |-> <<>>, out |-> Return(<<>>, <<>>)]

\* no MPI job is running
NoWorld == [nproc |-> 0, phase |-> "none"]

\* no kernel is running
NoKernel == [pc |-> "none"]

(***************************************************************************)
(* Actions.  The facade keeps no state between calls other than the        *)
(* object's fields, which no method assigns after construction: every      *)
(* evaluation is explored on the object as constructed.                    *)
(***************************************************************************)
ConstructFrom(args) ==
    /\ obj = NoObject
    /\ last.op = "none"
    /\ \E a \in args :
        LET out == WaveformMisfit_init(a.norm, a.time_shift_groups,
                                       a.time_shift_min, a.time_shift_max,
                                       a.level, a.normalize)
        IN  /\ last' = [op |-> "init", args |-> a, out |-> out]
            /\ obj' = IF out.status = "return" THEN out.value ELSE NoObject
    /\ UNCHANGED <<callerData, callerGreens, callerSources, beyond, world, kernel>>

\* misfit = WaveformMisfit(**parameters), over the whole argument space
ConstructAny == ConstructFrom(AllArgs)

\* constructor arguments with a level that only a call admits, or none admits
HighLevelArgs ==
    {[norm |-> L2, time_shift_groups |-> OneGroup, time_shift_min |-> 0,
      time_shift_max |-> 2, level |-> l, normalize |-> TRUE] : l \in {3, 4}}

\* misfit = WaveformMisfit(**parameters), for the evaluations
Construct == ConstructFrom(EvalArgs \cup HighLevelArgs)

\* values = misfit(data, greens, sources, ...)
Call ==
    /\ obj.constructed
    /\ last.op = "init"
    /\ \E a \in CallArgs :
        /\ last' = [op |-> "call",
                    args |-> a,
                    out |-> WaveformMisfit_call(obj, callerData, callerGreens,
                                                callerSources, a.normalize,
                                                a.set_attributes, a.level)]
        /\ callerGreens' = Greens_after_call(obj, callerData, callerGreens,
                                              callerSources, a.normalize,
                                              a.set_attributes, a.level)
    /\ UNCHANGED <<obj, callerData, callerSources, beyond, world, kernel>>

\* misfit.collect_attributes(data, greens, source, normalize)
CollectAttributes ==
    /\ obj.constructed
    /\ last.op = "init"
    /\ \E source \in CollectSources, normalize \in BOOLEAN :
        /\ last' = [op |-> "collect_attributes",
                    args |-> [source |-> source, normalize |-> normalize],
                    out |-> WaveformMisfit_collect_attributes(obj, callerData,
                                callerGreens, source, normalize)]
        /\ callerGreens' = Greens_after_collect_attributes(obj, callerData,
                                callerGreens, source, normalize)
    /\ UNCHANGED <<obj, callerData, callerSources, beyond, world, kernel>>

\* misfit.collect_synthetics(data, greens, source, normalize, mode)
CollectSynthetics ==
    /\ obj.constructed
    /\ last.op = "init"
    /\ \E source \in CollectSources, mode \in Modes :
        /\ last' = [op |-> "collect_synthetics",
                    args |-> [source |-> source, normalize |-> FALSE, mode |-> mode],
                    out |-> WaveformMisfit_collect_synthetics(obj, callerData,
                                callerGreens, source, FALSE, mode)]
        /\ callerGreens' = Greens_after_collect_synthetics(obj, callerData,
                                callerGreens, source, FALSE, mode)
    /\ UNCHANGED <<obj, callerData, callerSources, beyond, world, kernel>>

NoData == <<>>

NoSources == [single |-> FALSE, item |-> <<>>, items |-> <<>>]

\* the constructor alone, on its whole argument space
InitNoData ==
    /\ obj = NoObject
    /\ last = NoCall
    /\ callerData = NoData
    /\ callerGreens = NoData
    /\ callerSources = NoSources
    /\ beyond = NothingBeyond
    /\ world = NoWorld
    /\ kernel = NoKernel

NextInit == ConstructAny

SpecInit == InitNoData /\ [][NextInit]_vars

\* construction, then the evaluations on the caller's data
Init ==
    /\ obj = NoObject
    /\ last = NoCall
    /\ \E env \in Environments :
          /\ callerData = env.data
          /\ callerGreens = env.greens
          /\ callerSources = env.sources
          /\ beyond = env.beyond
    /\ world = NoWorld
    /\ kernel = NoKernel

Next == Construct \/ Call \/ CollectAttributes \/ CollectSynthetics

Spec == Init /\ [][Next]_vars

(***************************************************************************)
(* Construction (specification SpecInit)                                   *)
(***************************************************************************)
Constructing == last.op = "init"

Rejected == last.out.status = "raise" /\ ~obj.constructed

\* the arguments other than time_shift_groups pass the constructor's checks
OtherArgsValid ==
    /\ \/ last.args.norm \in {L1, L2}
       \/ Lower(last.args.norm) = hybrid
    /\ last.args.time_shift_min <= 0
    /\ last.args.time_shift_max >= 0
    /\ last.args.level \in {0, 1, 2}

GroupsAreList == last.args.time_shift_groups.type \in {"list", "tuple"}

GroupsOutsideAlphabet ==
    \E g \in DOMAIN last.args.time_shift_groups.items :
        \E k \in DOMAIN last.args.time_shift_groups.items[g] :
            last.args.time_shift_groups.items[g][k] \notin {"Z", "R", "T"}

GroupsOverlap ==
    \E g, h \in DOMAIN last.args.time_shift_groups.items :
        /\ g # h
        /\ SeqToSet(last.args.time_shift_groups.items[g])
             \cap SeqToSet(last.args.time_shift_groups.items[h]) # {}

\* C4: a norm name that names none of the three supported norms (it is neither
\* L1, nor L2, nor hybrid in whatever letter case) is rejected at construction,
\* and every constructed object holds one of L1, L2, hybrid, a spelling of
\* hybrid being stored in lower case.
C4_NormRejected ==
    Constructing =>
        /\ (last.args.norm \notin {L1, L2} /\ Lower(last.args.norm) # hybrid)
              => Rejected
        /\ obj.constructed =>
              /\ obj.norm \in {L1, L2, hybrid}
              /\ obj.norm = IF Lower(last.args.norm) = hybrid THEN hybrid
                            ELSE last.args.norm

\* a name that differs from L2 only by letter case was given and rejected with
\* the constructor's assertion error
C4_Witness ==
    /\ Constructing
    /\ last.args.norm = <<"l", "2">>
    /\ Rejected
    /\ last.out.exc = "AssertionError"

\* C5: construction succeeds only with time_shift_min <= 0 <= time_shift_max;
\* a positive lower bound or a negative upper bound is rejected.
C5_TimeShiftSigns ==
    Constructing =>
        /\ (last.args.time_shift_min > 0 \/ last.args.time_shift_max < 0)
              => Rejected
        /\ obj.constructed =>
              /\ obj.time_shift_min <= 0
              /\ 0 <= obj.time_shift_max
              /\ obj.time_shift_min = last.args.time_shift_min
              /\ obj.time_shift_max = last.args.time_shift_max

\* a positive lower bound was given with arguments that are otherwise valid, and
\* rejected
C5_Witness ==
    /\ Constructing
    /\ last.args.time_shift_min > 0
    /\ last.args.time_shift_max >= 0
    /\ last.args.norm = L2
    /\ Rejected
    /\ last.out.exc = "AssertionError"

\* C6: a group with a character outside {Z, R, T} is rejected; a
\* time_shift_groups that is not a list or tuple is rejected, with a type error
\* when the other arguments are valid; groups over the alphabet are accepted
\* whether they overlap or not.
C6_GroupAlphabet ==
    Constructing =>
        /\ GroupsOutsideAlphabet => Rejected
        /\ ~GroupsAreList => Rejected
        /\ (~GroupsAreList /\ OtherArgsValid) => last.out.exc = "TypeError"
        /\ (GroupsAreList /\ ~GroupsOutsideAlphabet /\ OtherArgsValid)
              => /\ obj.constructed
                 /\ obj.time_shift_groups = last.args.time_shift_groups.items

\* groups that share a component were given, and the object was constructed
C6_Witness ==
    /\ Constructing
    /\ GroupsOverlap
    /\ obj.constructed
    /\ obj.time_shift_groups = <<<<"Z">>, <<"Z", "R">>>>

(***************************************************************************)
(* Evaluation (specification Spec)                                         *)
(***************************************************************************)
Calling == last.op = "call"

\* the level a call runs at is one of the facade's optimization levels
LevelValid == last.args.level = <<>> \/ last.args.level[1] \in {0, 1, 2, 3}

NumSources == IF callerSources.single THEN 1 ELSE Len(callerSources.items)

KernelEvents == {k \in DOMAIN last.out.events : last.out.events[k].ev = "kernel"}

NoKernelInvoked == KernelEvents = {}

PaddingInsufficient ==
    ~check_padding(callerGreens, obj.time_shift_min, obj.time_shift_max)

\* C1: a call on an empty dataset, at every norm and optimization level,
\* returns an array of zeros with one entry per source, emits one warning and
\* invokes no kernel.
C1_EmptyDataset ==
    (Calling /\ LevelValid /\ Len(callerData) = 0) =>
        /\ last.out.status = "return"
        /\ last.out.value.shape = <<NumSources, 1>>
        /\ DOMAIN last.out.value.at = 0..(NumSources - 1)
        /\ \A i \in DOMAIN last.out.value.at :
              last.out.value.at[i] = [j \in {0} |-> FNum(0)]
        /\ last.out.events = <<Ev("warn")>>
        /\ NoKernelInvoked

\* a call on an empty dataset with Green's tensors of two stations and two
\* sources returned two zeros
C1_Witness ==
    /\ Calling
    /\ Len(callerData) = 0
    /\ Len(callerGreens) = 2
    /\ NumSources = 2
    /\ last.out.status = "return"
    /\ last.out.value.shape = <<2, 1>>
    /\ last.out.events = <<Ev("warn")>>

\* C2: a call on a non-empty dataset whose number of stations differs from the
\* number of Green's tensors raises the consistency error, whose message names
\* both lengths; no kernel is invoked and nothing is returned.
C2_InconsistentLengths ==
    (Calling /\ LevelValid /\ Len(callerData) > 0
             /\ Len(callerData) # Len(callerGreens)) =>
        /\ last.out.status = "raise"
        /\ last.out.exc = "Exception"
        /\ last.out.msg[1] = "Inconsistent container lengths"
        /\ last.out.msg[2] = "len(data):"
        /\ last.out.msg[3] = Len(callerData)
        /\ last.out.msg[4] = "len(greens):"
        /\ last.out.msg[5] = Len(callerGreens)
        /\ last.out.value = <<>>
        /\ NoKernelInvoked

\* a call with two stations of data and one Green's tensor raised the error
C2_Witness ==
    /\ Calling
    /\ Len(callerData) = 2
    /\ Len(callerGreens) = 1
    /\ last.out.status = "raise"
    /\ last.out.exc = "Exception"
    /\ last.out.msg[3] = 2
    /\ last.out.msg[5] = 1

Evaluating == last.op \in {"call", "collect_attributes", "collect_synthetics"}

\* every kernel invocation comes after a padding check
PaddingCheckedFirst ==
    \A k \in KernelEvents :
        \E c \in 1..(k - 1) : last.out.events[c].ev = "check_padding"

KernelNormalize ==
    last.out.events[CHOOSE k \in KernelEvents : TRUE].normalize

\* what the reference tier returns for the inputs of the last call
Level0Value ==
    level0_misfit(callerData, callerGreens, iterable(callerSources), obj.norm,
                  obj.time_shift_groups, obj.time_shift_min, obj.time_shift_max,
                  KernelNormalize, FALSE).value

\* C7: for the same inputs, the values a call returns at tiers 1, 2 and 3 are
\* those of the reference tier 0.
C7_TiersAgree ==
    (Calling /\ last.out.status = "return" /\ ~NoKernelInvoked) =>
        last.out.value = Level0Value

\* the call of the last state, made with the one source of row i alone
RowAlone(i) ==
    WaveformMisfit_call(obj, callerData, callerGreens,
                        SourceList(<<iterable(callerSources)[i + 1]>>),
                        last.args.normalize, last.args.set_attributes,
                        last.args.level)

\* C8: a call on a batch of N sources returns N entries, and entry i is what the
\* call returns for row i alone, whatever the other rows are.
C8_OneEntryPerSource ==
    (Calling /\ last.out.status = "return") =>
        /\ last.out.value.shape = <<NumSources, 1>>
        /\ DOMAIN last.out.value.at = 0..(NumSources - 1)
        /\ Len(callerData) > 0 =>
              \A i \in 0..(NumSources - 1) :
                  last.out.value.at[i] = RowAlone(i).value.at[0]

\* the numba kernel returned two different entries for a batch of two sources
C8_Witness ==
    /\ Calling
    /\ last.out.status = "return"
    /\ \E k \in KernelEvents :
          last.out.events[k].tier = "level2" /\ last.out.events[k].ext = "numba"
    /\ NumSources = 2
    /\ last.out.value.at[0] # last.out.value.at[1]
    /\ ~last.out.value.at[0][0].nan
    /\ ~last.out.value.at[1][0].nan

\* C9: a call made without a normalize argument is the call made with the
\* normalize setting given at construction.
C9_ConstructedNormalizeGoverns ==
    (Calling /\ last.args.normalize = "absent") =>
        last.out = WaveformMisfit_call(obj, callerData, callerGreens, callerSources,
                       IF obj.normalize THEN "True" ELSE "False",
                       last.args.set_attributes, last.args.level)

CollectingAttributes == last.op = "collect_attributes"

\* the traces of station j that contribute to the misfit: active weight, and
\* component in some time-shift group
ContributingTraces(j) ==
    {k \in DOMAIN callerData[j] :
        /\ Abs(callerData[j][k].weight) >= WeightEps
        /\ \E g \in DOMAIN obj.time_shift_groups :
              callerData[j][k].component \in SeqToSet(obj.time_shift_groups[g])}

ContributingComponents(j) ==
    {callerData[j][k].component : k \in ContributingTraces(j)}

CollectingSynthetics == last.op = "collect_synthetics"

\* the set of the component labels of a stream
ComponentsOf(stream) == {stream[k].component : k \in DOMAIN stream}

\* the components named in some configured time-shift group
GroupComponents ==
    UNION {SeqToSet(obj.time_shift_groups[g]) : g \in DOMAIN obj.time_shift_groups}

\* the components of station j that collect_synthetics selects at a mode
SelectedAt(mode, j) == SeqToSet(SyntheticsComponents(obj, callerData, mode)[j])

\* C11: the synthetics collect_synthetics returns hold, per station, all of Z, R,
\* T at mode 1, the components present in the station's data at mode 2, and
\* the components present in the data and named in some time-shift group at
\* mode 3; the mode-3 selection is within the mode-2 one, which is within the
\* mode-1 one.
C11_ModeComponents ==
    (CollectingSynthetics /\ last.out.status = "return" /\ Len(callerData) > 0) =>
        /\ Len(last.out.value) = Len(callerData)
        /\ \A j \in DOMAIN callerData :
              /\ ComponentsOf(last.out.value[j]) =
                    CASE last.args.mode = 1 -> {"Z", "R", "T"}
                      [] last.args.mode = 2 -> ComponentsOf(callerData[j])
                      [] last.args.mode = 3 ->
                           ComponentsOf(callerData[j]) \cap GroupComponents
              /\ SelectedAt(3, j) \subseteq SelectedAt(2, j)
              /\ SelectedAt(2, j) \subseteq SelectedAt(1, j)

\* at mode 3, with groups that name Z and R only, the station whose data has Z
\* and T traces got the Z synthetic alone
C11_Witness ==
    /\ CollectingSynthetics
    /\ last.out.status = "return"
    /\ last.args.mode = 3
    /\ GroupComponents = {"Z", "R"}
    /\ Len(callerData) > 0
    /\ callerData[1] = StreamZTT
    /\ ComponentsOf(last.out.value[1]) = {"Z"}

\* the sources of the call do not have the basis length of the tensors
BasisMismatch ==
    /\ Len(callerGreens) > 0
    /\ \E i \in DOMAIN iterable(callerSources) :
          Len(iterable(callerSources)[i]) # NGOf(callerGreens)

\* C12: a call whose source weights do not have the basis length of the
\* tensors is rejected by the facade, and no kernel is invoked on it.
C12_MismatchRejected ==
    (Calling /\ BasisMismatch) =>
        /\ last.out.status = "raise"
        /\ NoKernelInvoked

(***************************************************************************)
(* The Green's tensor client, src/mtuq/io/greens_tensor/base.py            *)
(* (specification SpecClient).  An argument is [single, item, items] as    *)
(* for the sources: one object or a list of objects.                       *)
(***************************************************************************)
Min(a, b) == IF a < b THEN a ELSE b

\* Python's zip: pairs up to the length of the shorter list
Zip(a, b) == [i \in 1..Min(Len(a), Len(b)) |-> <<a[i], b[i]>>]

\* line 33, self._get_greens_tensor(station, origin) of a subclass: the
\* tensor read for that station and that origin
get_greens_tensor(station, origin) == [station |-> station, origin |-> origin]

\* lines 30-35
get_greens_tensors(stations, origins) ==
    LET pairs == Zip(iterable(stations), iterable(origins))
    IN  [i \in DOMAIN pairs |-> get_greens_tensor(pairs[i][1], pairs[i][2])]

StationNames == {"STA1", "STA2", "STA3"}

OriginNames == {"ORIGIN1", "ORIGIN2"}

\* one object, or a list of up to MaxStations objects
OneOrList(S) ==
    {SingleSource(x) : x \in S} \cup {SourceList(l) : l \in SeqsUpTo(S, MaxStations)}

\* greens = client.get_greens_tensors(stations, origins)
GetGreensTensors ==
    /\ last.op = "none"
    /\ \E stations \in OneOrList(StationNames), origins \in OneOrList(OriginNames) :
        last' = [op |-> "get_greens_tensors",
                 args |-> [stations |-> stations, origins |-> origins],
                 out |-> Return(get_greens_tensors(stations, origins), <<>>)]
    /\ UNCHANGED <<obj, callerData, callerGreens, callerSources, beyond, world, kernel>>

NextClient == GetGreensTensors

SpecClient == InitNoData /\ [][NextClient]_vars

GettingTensors == last.op = "get_greens_tensors"

\* C14: for n stations and a single origin, get_greens_tensors returns n
\* tensors, the i-th produced from station i and the given origin.
C14_OneTensorPerStation ==
    (GettingTensors /\ ~last.args.stations.single /\ last.args.origins.single) =>
        LET stations == last.args.stations.items
        IN  /\ Len(last.out.value) = Len(stations)
            /\ \A i \in DOMAIN stations :
                  last.out.value[i] =
                      get_greens_tensor(stations[i], last.args.origins.item)

(***************************************************************************)
(* The distributed grid search of the example script,                      *)
(* src/examples/GridSearch.FullMomentTensor.py (specification SpecGrid).   *)
(* Ranks are 0..nproc-1, rank 0 the root.  The data and Green's functions  *)
(* have been broadcast (lines 135-138), so that every rank computes the    *)
(* same misfit for a candidate: misfits[k + 1] is the misfit of candidate  *)
(* k of the full grid.  grid_search_mt lies outside the source given; its  *)
(* sharding is modelled from section 5 of the specification: every rank    *)
(* evaluates a shard of the grid, the shards are disjoint, cover the grid  *)
(* and follow the index order.                                             *)
(***************************************************************************)
MaxProcs == 3

MaxGrid == 3

MisfitValues == {1, 2, 3}

\* the number of candidates of the shard of a rank
ShardSize(npts, nproc, rank) ==
    (npts \div nproc) + (IF rank < npts % nproc THEN 1 ELSE 0)

\* the index of the first candidate of the shard of a rank
ShardStart(npts, nproc, rank) ==
    rank * (npts \div nproc) + Min(rank, npts % nproc)

\* the indices of the candidates of the shard of a rank, in order
Shard(npts, nproc, rank) ==
    [i \in 1..ShardSize(npts, nproc, rank) |-> ShardStart(npts, nproc, rank) + i - 1]

\* line 152 (mutant: the list is in the order in which the ranks arrived)
GatherByArrival(local, arrived) == [i \in DOMAIN arrived |-> local[arrived[i]]]

\* line 152, comm.gather(results, root=0): the list of the ranks' objects,
\* indexed by rank
GatherByRank(local, arrived) == [i \in DOMAIN arrived |-> local[i - 1]]

\* line 162, np.concatenate
RECURSIVE Concatenate(_)
Concatenate(arrays) ==
    IF arrays = <<>> THEN <<>>
    ELSE arrays[1] \o Concatenate(Tail(arrays))

\* line 164, results.argmin(): the index (from 0) of the first minimum
Argmin(results) ==
    CHOOSE k \in 0..(Len(results) - 1) :
        /\ \A i \in 0..(Len(results) - 1) : results[k + 1] <= results[i + 1]
        /\ \A i \in 0..(k - 1) : results[i + 1] > results[k + 1]

\* lines 148-150, one step of grid_search_mt on a rank: the misfit of the
\* next candidate of its shard
Evaluate(rank) ==
    LET shard == Shard(Len(world.misfits), world.nproc, rank)
        done == Len(world.local[rank])
    IN  /\ world.phase = "search"
        /\ done < Len(shard)
        /\ world' = [world EXCEPT
                        !.local[rank] = Append(@, world.misfits[shard[done + 1] + 1])]
        /\ UNCHANGED <<obj, callerData, callerGreens, callerSources, last, beyond, kernel>>

\* line 152, on a rank that has finished its shard: it enters the gather
EnterGather(rank) ==
    /\ world.phase = "search"
    /\ Len(world.local[rank]) = ShardSize(Len(world.misfits), world.nproc, rank)
    /\ \A i \in DOMAIN world.arrived : world.arrived[i] # rank
    /\ world' = [world EXCEPT !.arrived = Append(@, rank)]
    /\ UNCHANGED <<obj, callerData, callerGreens, callerSources, last, beyond, kernel>>

\* line 152, on the root once every rank has entered
Gather ==
    /\ world.phase = "search"
    /\ Len(world.arrived) = world.nproc
    /\ world' = [world EXCEPT !.phase = "gathered",
                              !.gathered = GatherByRank(world.local, world.arrived)]
    /\ UNCHANGED <<obj, callerData, callerGreens, callerSources, last, beyond, kernel>>

\* lines 159-164, on the root
ConcatenateResults ==
    /\ world.phase = "gathered"
    /\ LET results == Concatenate(world.gathered)
       IN  world' = [world EXCEPT !.phase = "done",
                                  !.results = results,
                                  !.best = Argmin(results)]
    /\ UNCHANGED <<obj, callerData, callerGreens, callerSources, last, beyond, kernel>>

Grids == UNION {[1..n -> MisfitValues] : n \in 1..MaxGrid}

InitGrid ==
    /\ obj = NoObject
    /\ last = NoCall
    /\ callerData = NoData
    /\ callerGreens = NoData
    /\ callerSources = NoSources
    /\ beyond = NothingBeyond
    /\ kernel = NoKernel
    /\ \E nproc \in 1..MaxProcs, misfits \in Grids :
          world = [nproc |-> nproc,
                   phase |-> "search",
                   misfits |-> misfits,
                   local |-> [rank \in 0..(nproc - 1) |-> <<>>],
                   arrived |-> <<>>,
                   gathered |-> <<>>,
                   results |-> <<>>,
                   best |-> 0]

NextGrid ==
    \/ \E rank \in 0..(world.nproc - 1) : Evaluate(rank)
    \/ \E rank \in 0..(world.nproc - 1) : EnterGather(rank)
    \/ Gather
    \/ ConcatenateResults

SpecGrid == InitGrid /\ [][NextGrid]_vars

NoIteration == [valid |-> FALSE]

\* lines 12-20
KernelStart(input, T) ==
    [pc |-> "source",
     input |-> input,
     T |-> T,
     isrc |-> 0,
     n |-> 0,
     cc |-> [it \in 0..(T.NPAD1 + T.NPAD2) |-> 0],
     itpad |-> 0,
     L2_sum |-> FNum(0),
     results |-> Zeros(T.sources.shape[1]).at,
     iter |-> NoIteration,
     lags |-> <<>>]

\* lines 22-23: the next source
KernelSource ==
    /\ kernel.pc = "source"
    /\ kernel.isrc < kernel.T.sources.shape[1]
    /\ kernel' = [kernel EXCEPT !.pc = "pair",
                                !.n = 0,
                                !.L2_sum = L2SumStart(kernel),
                                !.iter = NoIteration,
                                !.lags = <<>>]
    /\ UNCHANGED <<obj, callerData, callerGreens, callerSources, last, beyond, world>>

\* lines 25-72: one pass of the body of the station and group loops
KernelStationGroup ==
    LET T == kernel.T
        NGRP == T.groups.shape[1]
        NSTA == T.weights.shape[1]
        ista == kernel.n \div NGRP
        igrp == kernel.n % NGRP
        cc == CcAccumulate(CcReset(kernel.cc), T.greens_data, T.sources, T.groups,
                           T.weights, kernel.isrc, ista, igrp)
        itpad == CcArgmax(cc, T.NPAD1 + T.NPAD2 + 1)
        done == {ic \in 0..(T.weights.shape[2] - 1) :
                    KernelActive(T.groups, T.weights, igrp, ista, ic)}
    IN  /\ kernel.pc = "pair"
        /\ kernel.n < NSTA * NGRP
        /\ kernel' = [kernel EXCEPT
              !.n = @ + 1,
              !.cc = cc,
              !.itpad = itpad,
              !.L2_sum = ResidualLoop(kernel.L2_sum, T.weights.shape[2], T.data_data,
                             T.greens_data, T.greens_greens, T.sources, T.groups,
                             T.weights, T.hybrid_norm, T.dt, kernel.isrc,
                             [ista |-> ista, igrp |-> igrp], itpad),
              !.iter = [valid |-> TRUE, isrc |-> kernel.isrc, ista |-> ista,
                        igrp |-> igrp, before |-> kernel.L2_sum,
                        L2_tmp |-> [ic \in done |->
                                      Residual(T.data_data, T.greens_data,
                                               T.greens_greens, T.sources,
                                               kernel.isrc, ista, ic, itpad)]],
              !.lags = Append(@, itpad)]
        /\ UNCHANGED <<obj, callerData, callerGreens, callerSources, last, beyond, world>>

\* line 74: results[isrc] = L2_sum
KernelStore ==
    /\ kernel.pc = "pair"
    /\ kernel.n = kernel.T.weights.shape[1] * kernel.T.groups.shape[1]
    /\ kernel' = [kernel EXCEPT
          !.pc = "source",
          !.isrc = @ + 1,
          !.results = [@ EXCEPT ![kernel.isrc] = [j \in {0} |-> kernel.L2_sum]]]
    /\ UNCHANGED <<obj, callerData, callerGreens, callerSources, last, beyond, world>>

\* line 76: return results
KernelReturn ==
    /\ kernel.pc = "source"
    /\ kernel.isrc = kernel.T.sources.shape[1]
    /\ kernel' = [kernel EXCEPT !.pc = "done"]
    /\ UNCHANGED <<obj, callerData, callerGreens, callerSources, last, beyond, world>>

\* the data energy of the traces as computed with a rounding error e
WithEnergyError(T, e) ==
    [T EXCEPT !.data_data =
        [shape |-> T.data_data.shape,
         at |-> [ista \in DOMAIN T.data_data.at |->
                   [ic \in DOMAIN T.data_data.at[ista] |->
                      IF T.weights.at[ista][ic] = 0 THEN T.data_data.at[ista][ic]
                      ELSE T.data_data.at[ista][ic] - e]]]]

EnergyErrors == {0, 1}

\* the settings of the runs: one group over a one-sided window, separate groups
\* over a two-sided window, overlapping groups without a window
KernelSettings ==
    {[time_shift_groups |-> OneGroup.items, time_shift_min |-> 0, time_shift_max |-> 2],
     [time_shift_groups |-> SeparateGroups.items, time_shift_min |-> -2,
      time_shift_max |-> 2],
     [time_shift_groups |-> OverlappingGroups.items, time_shift_min |-> 0,
      time_shift_max |-> 0]}

\* Green's tensors padded on the right by three samples, the same basis for
\* every component: two pulses, a growing trace, a trace that stays level
GreensWide(g1, g2) ==
    [delta |-> 2, pad_left |-> 0, pad_right |-> 3,
     basis |-> [c \in {"Z", "R", "T"} |-> <<g1, g2>>],
     synthetics |-> <<>>]

GreensPulse == GreensWide(<<0, 0, 1, 0, 0>>, <<0, 0, 0, 1, 0>>)

GreensRamp == GreensWide(<<0, 0, 1, 2, 4>>, <<0, 1, 0, 0, 0>>)

GreensLevel == GreensWide(<<0, 0, 1, 1, 1>>, <<0, 1, 0, 0, 0>>)

\* the sources of the scenarios, and the combinations the data are made of
ScenarioSources == << <<0, 0>>, <<1, 0>>, <<0, 1>>, <<1, 1>>, <<2, 1>> >>

\* a trace of two samples of component c: the synthetics of the combination
\* coef, from the sample that faces the data at the lag index shift on
ShiftedData(tensor, coef, c, shift) ==
    <<Tr(c, 2, [t \in 1..2 |->
                  Synthetic(tensor, coef, c)[t + tensor.pad_left + shift]])>>

\* one station with one trace that is exactly a basis combination: without a
\* window, and within a window of 0 to 3 samples with the data 2 samples late
ScenarioInputs ==
    {[data |-> <<ShiftedData(g, ScenarioSources[k], c, 0)>>, greens |-> <<g>>,
      sources |-> ScenarioSources, norm |-> n,
      settings |-> [time_shift_groups |-> OneGroup.items, time_shift_min |-> 0,
                    time_shift_max |-> 0],
      error |-> 0, scenario |-> "fit", coef |-> ScenarioSources[k]] :
        g \in GreensTensors, c \in {"Z", "R", "T"}, k \in DOMAIN ScenarioSources,
        n \in {L2, hybrid}}
    \cup
    {[data |-> <<ShiftedData(g, ScenarioSources[k], "Z", 2)>>, greens |-> <<g>>,
      sources |-> ScenarioSources, norm |-> n,
      settings |-> [time_shift_groups |-> OneGroup.items, time_shift_min |-> 0,
                    time_shift_max |-> 6],
      error |-> 0, scenario |-> "shift", coef |-> ScenarioSources[k]] :
        g \in {GreensPulse, GreensRamp, GreensLevel}, k \in DOMAIN ScenarioSources,
        n \in {L2, hybrid}}

KernelInputs ==
    {[data |-> d, greens |-> [j \in DOMAIN d |-> GreensPadded],
      sources |-> << <<1, 0>>, <<1, 1>> >>, norm |-> n, settings |-> g, error |-> e,
      scenario |-> "none", coef |-> <<>>] :
        d \in Datasets \ {<<>>}, n \in {L2, hybrid}, g \in KernelSettings,
        e \in EnergyErrors}
    \cup ScenarioInputs

InitKernel ==
    /\ obj = NoObject
    /\ last = NoCall
    /\ callerData = NoData
    /\ callerGreens = NoData
    /\ callerSources = NoSources
    /\ beyond = NothingBeyond
    /\ world = NoWorld
    /\ \E input \in KernelInputs :
          kernel = KernelStart(input,
                       WithEnergyError(
                           Tensors(input.data, input.greens, input.sources, input.norm,
                                   input.settings.time_shift_groups,
                                   input.settings.time_shift_min,
                                   input.settings.time_shift_max),
                           input.error))

NextKernel == KernelSource \/ KernelStationGroup \/ KernelStore \/ KernelReturn

SpecKernel == InitKernel /\ [][NextKernel]_vars

\* a pair of the station and group loops has just been done
PairDone == kernel.pc = "pair" /\ kernel.iter.valid

\* the components the kernel does not skip in a (station, group)
ActiveIn(T, ista, igrp) ==
    {ic \in 0..(NC - 1) :
        T.groups.at[igrp][ic] # 0 /\ Abs(T.weights.at[ista][ic]) >= WeightEps}

\* sum of f over the set S
RECURSIVE SumOver(_, _)
SumOver(f, S) ==
    IF S = {} THEN 0
    ELSE LET x == CHOOSE y \in S : TRUE
         IN  f[x] + SumOver(f, S \ {x})

\* a weight of 1.0, in the unit of the weights
WeightOne == WeightEps * 1000000

\* C15: after the correlation loop of a (source, station, group), the curve
\* is at every lag the sum over the active components and the basis of
\* component weight * data_basis_xcorr * source weight.
C15_WeightedCurve ==
    PairDone =>
        LET T == kernel.T
            at == kernel.iter
            NG == T.sources.shape[2]
        IN  \A it \in DOMAIN kernel.cc :
                WeightOne * kernel.cc[it] =
                    SumOver([ic \in ActiveIn(T, at.ista, at.igrp) |->
                               SumTo([ig \in 0..(NG - 1) |->
                                        T.weights.at[at.ista][ic]
                                          * T.greens_data.at[at.ista][ic][ig][it]
                                          * T.sources.at[at.isrc][ig]], NG)],
                            ActiveIn(T, at.ista, at.igrp))

\* C16: the selected lag is an index of the window, the curve is nowhere
\* greater than at it, and the curve is smaller at every lower index: of
\* several maxima the lowest index is selected.
C16_FirstMaximum ==
    PairDone =>
        /\ kernel.itpad \in 0..(kernel.T.NPAD1 + kernel.T.NPAD2)
        /\ DOMAIN kernel.cc = 0..(kernel.T.NPAD1 + kernel.T.NPAD2)
        /\ \A it \in DOMAIN kernel.cc : kernel.cc[it] <= kernel.cc[kernel.itpad]
        /\ \A it \in 0..(kernel.itpad - 1) : kernel.cc[it] < kernel.cc[kernel.itpad]

\* the maximum is attained at two lags, and the lower one, which is not the
\* first of the window, was selected
C16_Witness ==
    /\ PairDone
    /\ kernel.itpad > 0
    /\ \E it \in DOMAIN kernel.cc :
          it > kernel.itpad /\ kernel.cc[it] = kernel.cc[kernel.itpad]

\* the correlation curve of a (source, station, group) from its own
\* components alone, as the kernel sums it
OwnCurve(T, isrc, ista, igrp) ==
    LET NG == T.sources.shape[2]
    IN  [it \in 0..(T.NPAD1 + T.NPAD2) |->
           SumOver([ic \in ActiveIn(T, ista, igrp) |->
                      SumTo([ig \in 0..(NG - 1) |->
                               T.greens_data.at[ista][ic][ig][it]
                                 * T.sources.at[isrc][ig]], NG)],
                   ActiveIn(T, ista, igrp))]

\* the first maximum of that curve
OwnLag(T, isrc, ista, igrp) ==
    LET cc == OwnCurve(T, isrc, ista, igrp)
        best == {it \in DOMAIN cc : \A other \in DOMAIN cc : cc[other] <= cc[it]}
    IN  CHOOSE it \in best : \A other \in best : it <= other

\* C17: the residuals of a (source, station, group) are those of its active
\* components, all at one lag, and that lag is the one selected from the curve
\* of this source, station and group alone, whatever was selected before.
C17_OneLagPerGroup ==
    PairDone =>
        LET T == kernel.T
            at == kernel.iter
            lag == OwnLag(T, at.isrc, at.ista, at.igrp)
        IN  /\ kernel.itpad = lag
            /\ kernel.lags[kernel.n] = lag
            /\ DOMAIN at.L2_tmp = ActiveIn(T, at.ista, at.igrp)
            /\ \A ic \in DOMAIN at.L2_tmp :
                  at.L2_tmp[ic] = RefResidual(T, at.isrc, at.ista, ic, lag)

\* the two groups of one station selected different lags, and the residual of
\* the second group was taken at its own
C17_Witness ==
    /\ PairDone
    /\ kernel.T.groups.shape[1] = 2
    /\ kernel.iter.igrp = 1
    /\ kernel.lags[kernel.n - 1] # kernel.lags[kernel.n]
    /\ kernel.iter.L2_tmp # <<>>

\* the squared difference of the data and the synthetics of a component,
\* sample by sample, the synthetics shifted by the lag
DirectResidual(input, NPAD1, isrc, ista, ic, lag) ==
    LET c == Components[ic + 1]
        stream == input.data[ista + 1]
        d == stream[TraceIndex(stream, c)].samples
        g == input.greens[ista + 1]
        source == input.sources[isrc + 1]
        syn == [t \in DOMAIN d |->
                  SumSeq([ig \in DOMAIN source |->
                            source[ig] * g.basis[c][ig][t + (g.pad_left - NPAD1) + lag]],
                         Len(source))]
    IN  SumSeq([t \in DOMAIN d |-> (syn[t] - d[t]) * (syn[t] - d[t])], Len(d))

\* C18: the residual of each active component at the selected lag is the sum
\* over j1, j2 of source[j1] * source[j2] * basis_basis_xcorr, plus the data
\* energy, minus twice the sum over the basis of data_basis_xcorr * source;
\* with exact tensors that is the squared difference of data and synthetics.
C18_ResidualFormula ==
    PairDone =>
        LET T == kernel.T
            at == kernel.iter
            NG == T.sources.shape[2]
            w == T.sources.at[at.isrc]
        IN  \A ic \in DOMAIN at.L2_tmp :
               /\ at.L2_tmp[ic] =
                     SumTo([j1 \in 0..(NG - 1) |->
                        SumTo([j2 \in 0..(NG - 1) |->
                           w[j1] * w[j2]
                             * T.greens_greens.at[at.ista][ic][kernel.itpad][j1][j2]],
                           NG)], NG)
                     + T.data_data.at[at.ista][ic]
                     - 2 * SumTo([ig \in 0..(NG - 1) |->
                              T.greens_data.at[at.ista][ic][ig][kernel.itpad] * w[ig]],
                              NG)
               /\ at.L2_tmp[ic] + kernel.input.error =
                     DirectResidual(kernel.input, T.NPAD1, at.isrc, at.ista, ic,
                                    kernel.itpad)

\* a residual in which all three terms count: a source with two basis
\* weights, a nonzero correlation with the data, a positive residual
C18_Witness ==
    /\ PairDone
    /\ kernel.input.error = 0
    /\ kernel.iter.isrc = 1
    /\ \E ic \in DOMAIN kernel.iter.L2_tmp :
          /\ kernel.iter.L2_tmp[ic] > 0
          /\ \E ig \in 0..1 :
                kernel.T.greens_data.at[kernel.iter.ista][ic][ig][kernel.itpad] > 0

\* what an active component adds to the total, the residual clamped at zero
\* under the square root
ClampedTerm(T, ista, ic, residual) ==
    IF T.hybrid_norm = 0 THEN T.dt * T.weights.at[ista][ic] * residual
    ELSE T.dt * T.weights.at[ista][ic] * ISqrt(IF residual < 0 THEN 0 ELSE residual)

\* a source has just been stored
SourceStored == kernel.pc \in {"source", "done"} /\ kernel.isrc > 0

\* C19: the total stored for a source is the sum over the stations, the
\* groups and their active components of dt * weight * residual under the
\* quadratic norm, and of dt * weight * sqrt(max(residual, 0)) otherwise, the
\* residual taken at the lag of the (station, group).
C19_TotalIsSum ==
    SourceStored =>
        LET T == kernel.T
            isrc == kernel.isrc - 1
            NGRP == T.groups.shape[1]
            pairs == 0..(Len(kernel.lags) - 1)
        IN  kernel.results[isrc][0] =
                FNum(SumOver(
                    [n \in pairs |->
                       SumOver([ic \in ActiveIn(T, n \div NGRP, n % NGRP) |->
                                  ClampedTerm(T, n \div NGRP, ic,
                                      RefResidual(T, isrc, n \div NGRP, ic,
                                                  kernel.lags[n + 1]))],
                               ActiveIn(T, n \div NGRP, n % NGRP))],
                    pairs))

\* C20: under the hybrid norm a component whose residual is negative adds
\* nothing to the sum, and the sum and the stored results are numbers.
C20_NegativeClamped ==
    (PairDone /\ kernel.T.hybrid_norm # 0) =>
        LET T == kernel.T
            at == kernel.iter
            counted == {ic \in DOMAIN at.L2_tmp : at.L2_tmp[ic] >= 0}
        IN  /\ ~at.before.nan => ~kernel.L2_sum.nan
            /\ ~kernel.L2_sum.nan =>
                  kernel.L2_sum.v = at.before.v +
                      SumOver([ic \in counted |->
                                 T.dt * T.weights.at[at.ista][ic] * ISqrt(at.L2_tmp[ic])],
                              counted)
            /\ \A i \in DOMAIN kernel.results : ~kernel.results[i][0].nan

\* the kernel skips the component at the station in every group: its weight is
\* below the threshold, or no group holds it
Inactive(T, ista, ic) ==
    \/ Abs(T.weights.at[ista][ic]) < WeightEps
    \/ \A igrp \in 0..(T.groups.shape[1] - 1) : T.groups.at[igrp][ic] = 0

\* the tensors with other values for the inactive components
Disturbed(T) ==
    [T EXCEPT
       !.data_data =
          [shape |-> T.data_data.shape,
           at |-> [ista \in DOMAIN T.data_data.at |->
                     [ic \in DOMAIN T.data_data.at[ista] |->
                        IF Inactive(T, ista, ic) THEN T.data_data.at[ista][ic] + 7
                        ELSE T.data_data.at[ista][ic]]]],
       !.greens_data =
          [shape |-> T.greens_data.shape,
           at |-> [ista \in DOMAIN T.greens_data.at |->
                     [ic \in DOMAIN T.greens_data.at[ista] |->
                        [ig \in DOMAIN T.greens_data.at[ista][ic] |->
                           [it \in DOMAIN T.greens_data.at[ista][ic][ig] |->
                              IF Inactive(T, ista, ic)
                              THEN T.greens_data.at[ista][ic][ig][it] + 5 + it
                              ELSE T.greens_data.at[ista][ic][ig][it]]]]]],
       !.greens_greens =
          [shape |-> T.greens_greens.shape,
           at |-> [ista \in DOMAIN T.greens_greens.at |->
                     [ic \in DOMAIN T.greens_greens.at[ista] |->
                        [it \in DOMAIN T.greens_greens.at[ista][ic] |->
                           [j1 \in DOMAIN T.greens_greens.at[ista][ic][it] |->
                              [j2 \in DOMAIN T.greens_greens.at[ista][ic][it][j1] |->
                                 IF Inactive(T, ista, ic)
                                 THEN T.greens_greens.at[ista][ic][it][j1][j2] + 3
                                 ELSE T.greens_greens.at[ista][ic][it][j1][j2]]]]]]]]

\* the kernel's results on the tensors T
MisfitOn(T) ==
    misfit(T.data_data, T.greens_data, T.greens_greens, T.sources, T.groups,
           T.weights, T.hybrid_norm, T.dt, T.NPAD1, T.NPAD2).at

\* the lag the kernel selects for a (source, station, group) of the tensors T
LagOn(T, isrc, ista, igrp) ==
    CcArgmax(CcAccumulate(CcReset([it \in 0..(T.NPAD1 + T.NPAD2) |-> 0]),
                          T.greens_data, T.sources, T.groups, T.weights,
                          isrc, ista, igrp),
             T.NPAD1 + T.NPAD2 + 1)

\* C21: with other values of the data energy and of the two cross-correlation
\* tensors for every component whose weight is below 1e-6 in magnitude or
\* which no group holds, the kernel selects the same lag for every group and
\* returns the same misfit for every source.
C21_InactiveIgnored ==
    /\ PairDone =>
          kernel.itpad = LagOn(Disturbed(kernel.T), kernel.iter.isrc,
                               kernel.iter.ista, kernel.iter.igrp)
    /\ kernel.pc = "done" => kernel.results = MisfitOn(Disturbed(kernel.T))

\* a run on a station with a Z trace of nonzero weight below the threshold
\* and T traces that no group holds, and a station that has active components
C21_Witness ==
    /\ kernel.pc = "done"
    /\ kernel.input.data = <<StreamZTT, StreamZR>>
    /\ kernel.input.settings.time_shift_groups = OverlappingGroups.items
    /\ kernel.T.weights.at[0][0] = 1
    /\ kernel.T.weights.at[0][2] >= WeightEps
    /\ Inactive(kernel.T, 0, 0) /\ Inactive(kernel.T, 0, 2)
    /\ Disturbed(kernel.T) # kernel.T
    /\ ~kernel.results[0][0].nan /\ kernel.results[0][0].v > 0

MaxScale == 3

\* the tensors with every basis weight of every source multiplied by c
ScaledSources(T, c) ==
    [T EXCEPT !.sources =
        [shape |-> T.sources.shape,
         at |-> [isrc \in DOMAIN T.sources.at |->
                   [ig \in DOMAIN T.sources.at[isrc] |-> c * T.sources.at[isrc][ig]]]]]

\* C22: for every source, station and group and every positive constant c,
\* the lag the kernel selects for the source with all its basis weights
\* multiplied by c is the lag it selects for the source itself.
C22_LagScaleInvariant ==
    PairDone =>
        \A c \in 1..MaxScale :
            LagOn(ScaledSources(kernel.T, c), kernel.iter.isrc, kernel.iter.ista,
                  kernel.iter.igrp) = kernel.itpad

\* a curve with a positive maximum attained at two lags, the lower of them
\* not the first of the window: the scaled source selects the same lag
C22_Witness ==
    /\ PairDone
    /\ kernel.itpad > 0
    /\ kernel.cc[kernel.itpad] > 0
    /\ \E it \in DOMAIN kernel.cc :
          it > kernel.itpad /\ kernel.cc[it] = kernel.cc[kernel.itpad]
    /\ LagOn(ScaledSources(kernel.T, MaxScale), kernel.iter.isrc, kernel.iter.ista,
             kernel.iter.igrp) = kernel.itpad

(***************************************************************************)
(* The end-to-end scenarios: one station, one trace that is exactly a      *)
(* combination of the basis traces.                                        *)
(***************************************************************************)
\* the component of the one trace of the scenario
ScenarioComponent == kernel.input.data[1][1].component

\* the two basis traces of the component, as they face the data at lag 0, are
\* linearly independent
BasisIndependent(g, c) ==
    LET w1 == Window(g.basis[c][1], g.pad_left, 0, 0, 2)
        w2 == Window(g.basis[c][2], g.pad_left, 0, 0, 2)
    IN  w1[1] * w2[2] - w1[2] * w2[1] # 0

\* the kernel has run on the scenario without a window
FitDone ==
    /\ kernel.pc = "done"
    /\ kernel.input.scenario = "fit"
    /\ BasisIndependent(kernel.input.greens[1], ScenarioComponent)

\* C23: one station, one active component of positive weight, linearly
\* independent basis traces, no window, data that are exactly a combination
\* of the basis traces: under either norm the misfit of the source equal to
\* the combination is exactly 0 and the misfit of every other source is
\* strictly positive.
C23_ExactFitIsZero ==
    FitDone =>
        \A k \in DOMAIN ScenarioSources :
            LET r == kernel.results[k - 1][0]
            IN  /\ ~r.nan
                /\ ScenarioSources[k] = kernel.input.coef => r.v = 0 /\ r.d = 1
                /\ ScenarioSources[k] # kernel.input.coef => r.v > 0

\* the scenario has run under the hybrid norm on data made of both basis
\* traces
C23_Witness ==
    /\ FitDone
    /\ kernel.T.hybrid_norm = 1
    /\ kernel.input.coef = <<2, 1>>
    /\ kernel.results[4][0] = FNum(0)
    /\ kernel.results[0][0].v > 0

\* the two samples of the synthetics of the scenario's combination that face
\* the data at the lag index it
SyntheticWindow(it) ==
    LET syn == Synthetic(kernel.input.greens[1], kernel.input.coef, "Z")
    IN  [t \in 1..2 |-> syn[t + it]]

\* the data of the scenario
ScenarioData == kernel.input.data[1][1].samples

\* the kernel has finished the one (station, group) of the scenario with the
\* window of 0 to 3 samples, for the source equal to the data's combination
ShiftPairDone ==
    /\ PairDone
    /\ kernel.input.scenario = "shift"
    /\ kernel.input.sources[kernel.iter.isrc + 1] = kernel.input.coef

\* at no other lag of the window do the synthetics carry more energy than the
\* data, and at no lower lag are they the data
ShiftDistinct ==
    \A it \in 0..3 :
        /\ Dot(SyntheticWindow(it), SyntheticWindow(it), 2)
              <= Dot(ScenarioData, ScenarioData, 2)
        /\ it < 2 => SyntheticWindow(it) # ScenarioData

\* C24 as stated: with a window of 0 to 3 samples and data equal to a basis
\* combination shifted by 2 samples, the kernel selects lag index 2 for the
\* source equal to the combination and the residual there is zero.
C24_ShiftRecovered ==
    ShiftPairDone =>
        /\ kernel.itpad = 2
        /\ \A ic \in DOMAIN kernel.iter.L2_tmp : kernel.iter.L2_tmp[ic] = 0

\* C24, amended: the residual at the selected lag is the one obtained by
\* resimulating the synthetics shifted by that lag and differencing them
\* against the data; and when the synthetics carry at no other lag more
\* energy than the data and at no lower lag equal the data, the selected lag
\* index is 2 and the residual is zero.
C24_ShiftRecoveredWhenDistinct ==
    ShiftPairDone =>
        /\ \A ic \in DOMAIN kernel.iter.L2_tmp :
               kernel.iter.L2_tmp[ic] =
                   DirectResidual(kernel.input, kernel.T.NPAD1, kernel.iter.isrc,
                                  kernel.iter.ista, ic, kernel.itpad)
        /\ ShiftDistinct =>
               /\ kernel.itpad = 2
               /\ \A ic \in DOMAIN kernel.iter.L2_tmp : kernel.iter.L2_tmp[ic] = 0

\* the lag index 2 recovered for data made of both basis traces, where the
\* synthetics one sample further match the data as well as at lag 2 or less
C24_Witness ==
    /\ ShiftPairDone
    /\ ShiftDistinct
    /\ kernel.input.coef = <<1, 0>>
    /\ kernel.input.greens[1] = GreensLevel
    /\ kernel.itpad = 2
    /\ DOMAIN kernel.iter.L2_tmp # {}

(***************************************************************************)
(* Independence of the candidate sources.                                  *)
(***************************************************************************)
\* the tensors T with the batch of sources replaced by the rows of it that the
\* sequence rows names, in that order
WithSources(T, rows) ==
    [T EXCEPT !.sources =
        [shape |-> <<Len(rows), T.sources.shape[2]>>,
         at |-> [i \in 0..(Len(rows) - 1) |-> T.sources.at[rows[i + 1]]]]]

\* the rows lo..hi of a batch
RowsFrom(lo, hi) == [i \in 1..(hi - lo + 1) |-> lo + i - 1]

\* C25: the misfit returned for a source is the one the kernel returns for
\* that source alone, and the one it returns for it after any other source of
\* the batch; the results of the batch are the results of its two shards, one
\* after the other, wherever the batch is cut.
C25_SourcesIndependent ==
    kernel.pc = "done" =>
        LET T == kernel.T
            NSRC == T.sources.shape[1]
        IN  /\ \A i \in 0..(NSRC - 1) :
                   kernel.results[i] = MisfitOn(WithSources(T, <<i>>))[0]
            /\ \A i, j \in 0..(NSRC - 1) :
                   kernel.results[i] = MisfitOn(WithSources(T, <<j, i>>))[1]
            /\ \A k \in 1..(NSRC - 1) :
                   LET head == MisfitOn(WithSources(T, RowsFrom(0, k - 1)))
                       tail == MisfitOn(WithSources(T, RowsFrom(k, NSRC - 1)))
                   IN  \A i \in 0..(NSRC - 1) :
                          kernel.results[i] = IF i < k THEN head[i] ELSE tail[i - k]

\* a batch of two sources with different positive misfits on two stations with
\* two groups: the second source was evaluated after the first one had used
\* the correlation buffer and the running sum
C25_Witness ==
    /\ kernel.pc = "done"
    /\ kernel.T.sources.shape[1] = 2
    /\ kernel.T.data_data.shape[1] = 2
    /\ kernel.T.groups.shape[1] = 2
    /\ ~kernel.results[0][0].nan /\ ~kernel.results[1][0].nan
    /\ kernel.results[0][0].v > 0
    /\ kernel.results[1][0].v > 0
    /\ kernel.results[0][0] # kernel.results[1][0]

(***************************************************************************)
(* Additivity of the total over the groups.                                *)
(***************************************************************************)
\* what the component ic adds to the sum of a source at a station, for the
\* residual at the lag of one group
GroupTerm(T, isrc, ista, ic, lag) ==
    NormTerm(T.hybrid_norm, T.dt, T.weights.at[ista][ic],
             RefResidual(T, isrc, ista, ic, lag))

\* a number plus the terms f[x] of the x in S
AddTerms(start, f, S) ==
    IF start.nan \/ \E x \in S : f[x].nan THEN FNaN
    ELSE FNum(start.v + SumOver([x \in S |-> f[x].v], S))

\* C30: each (station, group) adds to the running sum of the source the
\* weighted residual of every component active in the group, taken at the
\* lag of that group, whether or not another group has counted the component
\* already, and adds nothing when no component is active in it; the total
\* stored for a source holds, for every component, one term per group in
\* which the component is active.
C30_AdditiveOverGroups ==
    /\ PairDone =>
          LET T == kernel.T
              at == kernel.iter
              active == ActiveIn(T, at.ista, at.igrp)
          IN  /\ DOMAIN at.L2_tmp = active
              /\ kernel.L2_sum =
                    AddTerms(at.before,
                             [ic \in active |->
                                GroupTerm(T, at.isrc, at.ista, ic, kernel.itpad)],
                             active)
              /\ active = {} => kernel.L2_sum = at.before
    /\ SourceStored =>
          LET T == kernel.T
              isrc == kernel.isrc - 1
              NGRP == T.groups.shape[1]
              terms == {<<n, ic>> \in (0..(Len(kernel.lags) - 1)) \X (0..(NC - 1)) :
                           ic \in ActiveIn(T, n \div NGRP, n % NGRP)}
          IN  /\ kernel.results[isrc][0] =
                    AddTerms(FNum(0),
                             [x \in terms |->
                                GroupTerm(T, isrc, x[1] \div NGRP, x[2],
                                          kernel.lags[x[1] + 1])],
                             terms)
              /\ \A ista \in 0..(T.weights.shape[1] - 1), ic \in 0..(NC - 1) :
                     Cardinality({x \in terms : x[1] \div NGRP = ista /\ x[2] = ic})
                         = Cardinality({igrp \in 0..(NGRP - 1) :
                                           ic \in ActiveIn(T, ista, igrp)})

\* the second of two groups that both hold component Z has added the
\* positive term of Z a second time
C30_Witness ==
    /\ PairDone
    /\ kernel.iter.igrp = 1
    /\ 0 \in ActiveIn(kernel.T, kernel.iter.ista, 0)
    /\ 0 \in ActiveIn(kernel.T, kernel.iter.ista, 1)
    /\ ~kernel.L2_sum.nan
    /\ GroupTerm(kernel.T, kernel.iter.isrc, kernel.iter.ista, 0, kernel.itpad).v > 0
    /\ kernel.L2_sum.v >=
          2 * GroupTerm(kernel.T, kernel.iter.isrc, kernel.iter.ista, 0, kernel.itpad).v

(***************************************************************************)
(* The facade: attribute recording, the order of the input checks, the     *)
(* dispatch.                                                               *)
(***************************************************************************)
\* the operation asked for attribute recording
RecordingRequested ==
    \/ last.op \in {"collect_attributes", "collect_synthetics"}
    \/ Calling /\ last.args.set_attributes

\* C27: when attribute recording is requested, by collect_attributes, by
\* collect_synthetics or by a call with set_attributes=True, the kernel that
\* evaluates is level 0 whatever the level in force, and it is told to record;
\* level 1 and level 2 are never invoked with attribute recording.
C27_RecordingByLevel0 ==
    Evaluating =>
        \A k \in KernelEvents :
            LET e == last.out.events[k]
            IN  /\ RecordingRequested => e.tier = "level0" /\ e.set_attributes
                /\ e.tier # "level0" => ~e.set_attributes /\ ~RecordingRequested

\* a call with set_attributes=True and level=2 on an object constructed with
\* level 1 was evaluated by level 0
C27_Witness ==
    /\ Calling
    /\ last.args.set_attributes
    /\ last.args.level = <<2>>
    /\ obj.level = 1
    /\ KernelEvents # {}
    /\ \A k \in KernelEvents : last.out.events[k].tier = "level0"
    /\ last.out.status = "return"

\* the padding check was made
PaddingChecked ==
    \E k \in DOMAIN last.out.events : last.out.events[k].ev = "check_padding"

\* C28: a call makes its input checks in the order empty dataset, container
\* lengths, padding, and the first that fails decides: an empty dataset gives
\* the zeros also when the Green's tensors are of another number or lack
\* padding; lengths that differ give the consistency error, ahead of the
\* padding check, also when the padding is insufficient; the padding error is
\* raised only for a non-empty dataset of consistent length.
C28_ChecksInOrder ==
    (Calling /\ LevelValid) =>
        /\ isempty(callerData) =>
              /\ last.out.status = "return"
              /\ last.out.value = EmptyResult(iterable(callerSources))
              /\ ~PaddingChecked
        /\ (~isempty(callerData) /\ Len(callerData) # Len(callerGreens)) =>
              /\ last.out.status = "raise"
              /\ last.out.exc = "Exception"
              /\ ~PaddingChecked
        /\ (~isempty(callerData) /\ Len(callerData) = Len(callerGreens)) =>
              /\ PaddingChecked
              /\ PaddingInsufficient =>
                    last.out.status = "raise" /\ last.out.exc = "PaddingError"
        /\ (last.out.status = "raise" /\ last.out.exc = "PaddingError") =>
              /\ ~isempty(callerData)
              /\ Len(callerData) = Len(callerGreens)
              /\ PaddingInsufficient

\* two stations of data, one Green's tensor, and that one without the padding
\* the time shifts need: the call raised the consistency error
C28_Witness ==
    /\ Calling
    /\ LevelValid
    /\ Len(callerData) = 2
    /\ Len(callerGreens) = 1
    /\ PaddingInsufficient
    /\ last.out.status = "raise"
    /\ last.out.exc = "Exception"
    /\ ~PaddingChecked

\* the level in force in the call of the last state
LevelInForce == IF last.args.level = <<>> THEN obj.level ELSE last.args.level[1]

\* the kernel that serves the level in force
KernelInForce ==
    IF LevelInForce = 0 \/ last.args.set_attributes
      THEN [tier |-> "level0", ext |-> ""]
    ELSE IF LevelInForce = 1 THEN [tier |-> "level1", ext |-> ""]
    ELSE IF LevelInForce = 2 THEN [tier |-> "level2", ext |-> "numba"]
    ELSE [tier |-> "level2", ext |-> "Cython"]

\* what that kernel gives on the inputs of the call
KernelOutcome ==
    RunTier(KernelInForce, obj, callerData, callerGreens, iterable(callerSources),
            EffectiveNormalize(obj, last.args.normalize), last.args.set_attributes)

\* the inputs of the call pass the three checks
InputsValid ==
    /\ ~isempty(callerData)
    /\ Len(callerData) = Len(callerGreens)
    /\ ~PaddingInsufficient

\* C29: the constructor admits the levels 0, 1, 2 and a call the levels 0, 1,
\* 2, 3; a call on a non-empty dataset with as many Green's tensors and
\* sufficient padding invokes exactly one kernel, that of the per-call level
\* if one is given and of the constructed level otherwise, level 3 being
\* level 2 with the Cython extension, and its outcome is that kernel's: it
\* returns what the kernel returns and never returns nothing.
C29_OneKernelPerCall ==
    /\ last.op = "init" =>
          (last.out.status = "return" <=> last.args.level \in {0, 1, 2})
    /\ obj.constructed => obj.level \in {0, 1, 2}
    /\ Calling =>
          (last.out.status = "raise" /\ last.out.exc = "AssertionError"
              <=> LevelInForce \notin {0, 1, 2, 3})
    /\ (Calling /\ LevelValid /\ InputsValid) =>
          /\ Cardinality(KernelEvents) = 1
          /\ \A k \in KernelEvents :
                /\ last.out.events[k].tier = KernelInForce.tier
                /\ last.out.events[k].ext = KernelInForce.ext
          /\ last.out.status = KernelOutcome.status
          /\ last.out.status = "return" =>
                /\ last.out.value = KernelOutcome.value
                /\ last.out.value.shape = <<NumSources, 1>>
          /\ last.out.status = "raise" => last.out.exc = KernelOutcome.exc

\* a call with level=3 on an object constructed with level 1 was served by
\* level 2 with the Cython extension and returned its values
C29_Witness ==
    /\ Calling
    /\ InputsValid
    /\ obj.level = 1
    /\ last.args.level = <<3>>
    /\ ~last.args.set_attributes
    /\ \E k \in KernelEvents :
          last.out.events[k].tier = "level2" /\ last.out.events[k].ext = "Cython"
    /\ last.out.status = "return"
    /\ last.out.value = KernelOutcome.value

(***************************************************************************)
(* The caller's inputs.                                                    *)
(***************************************************************************)
\* C26: no operation changes what the caller passed in: a call,
\* collect_attributes and collect_synthetics leave the dataset, the Green's
\* tensors with the traces they hold, and the sources as they were.
C26_InputsUnchanged ==
    [][/\ callerData' = callerData
       /\ callerGreens' = callerGreens
       /\ callerSources' = callerSources]_vars

=============================================================================
